---- MODULE Spec2Model ----
(***************************************************************************)
(* rrwm: a tiling window manager for the river compositor.                 *)
(*                                                                         *)
(* The module models AppState (src/src/wm/mod.rs) and its event handlers   *)
(* (src/src/wm/mod.rs, src/src/wm/actions.rs) as a state machine, and the  *)
(* BSP tree functions of src/src/wm/layout.rs as operators.                *)
(*                                                                         *)
(*   Spec         the window / tag / focus state machine on one monitor    *)
(*   SpecOutputs  the same with two monitors and one window                *)
(*   SpecArea     the monitor rectangles (heads, configuration, bars)      *)
(*   SpecTree     the tree functions applied to every small tree           *)
(*   SpecMove     moving a window between two monitors                     *)
(*   SpecFloat    floating windows and their cascade                       *)
(*   SpecProtocol the requests of a manage and a render sequence           *)
(*   SpecSizing   the dimensions reports and the sizing retries            *)
(*   SpecReload   key bindings and the hot reload of the configuration     *)
(*   SpecBroadcast the status written to the clients of the status socket  *)
(*   SpecBlacklist the app ids a window announces and its tiling           *)
(*   SpecVisibility which windows a manage sequence shows and hides        *)
(*   SpecFloatFocus the focus cycle among the floating windows             *)
(*   SpecBar      bar reservations that precede the monitors               *)
(*   SpecNeighbor the neighbour search with two monitors on different tags *)
(*   SpecCycle    the tag wrap with tags beyond the wrap bound             *)
(*                                                                         *)
(* A leaf of the Rust tree stores a clone of WindowData; every reader of a *)
(* tree (calculate_layout, find_edge_in_tree, tree_contains, insert_at,    *)
(* remove_at, swap_windows) uses only its id, so a leaf is modelled by the *)
(* window id.                                                              *)
(***************************************************************************)
EXTENDS Integers, Sequences, FiniteSets, TLC

VARIABLES
    windows,                  \* AppState.windows: Vec<WindowData>, in creation order
    outputs,                  \* AppState.outputs: HashMap<String, OutputData>
    heads,                    \* AppState.heads: Vec<HeadInfo>
    layout_roots,             \* AppState.layout_roots: HashMap<(String, u32), LayoutNode>
    tag_focus_history,        \* AppState.tag_focus_history: HashMap<(String, u32), ObjectId>
    last_geometry,            \* AppState.last_geometry: HashMap<ObjectId, Geometry>
    focused_window,           \* AppState.focused_window: Option<ObjectId>
    focused_output,           \* AppState.focused_output: Option<String>
    focused_tags,             \* AppState.focused_tags: u32
    restrict_focus_to_tiling, \* AppState.restrict_focus_to_tiling
    pending_focus_dir,        \* AppState.pending_focus_dir: Option<Direction>
    pending_pointer_warp,     \* AppState.pending_pointer_warp: Option<(i32, i32)>
    config,                   \* AppState.config: the loaded configuration file
    events_in_sequence,       \* how many events were handled since the last ManageStart
    wrap_landing,             \* history: the tag wrap of the last handler, kept over the
                              \* ManageStart that follows it
    probe,                    \* SpecTree: the arguments and results of a tree function
    active_river_outputs,     \* AppState.active_river_outputs: Vec<RiverOutputInfo>
    window_data,              \* per window id: WindowData.node, layout_retry_count,
                              \* last_proposed_w, last_proposed_h
    requests,                 \* the requests the last handler run sent to window, node
                              \* and key binding objects, its manage_finish or
                              \* render_finish and the manage_dirty of a hot reload
    mismatch_run,             \* history: per window, the reports since the last one
                              \* that matched, and what they caused
    key_bindings,             \* AppState.key_bindings: Vec<KeyBinding>
    needs_reload,             \* AppState.needs_reload
    destroyed,                \* history: the binding objects that were sent destroy
    ipc_clients,              \* AppState.ipc_clients: Vec<UnixStream>
    last_sent_json,           \* AppState.last_sent_json
    ipc_backlog,              \* the connections waiting at AppState.ipc_listener
    broadcast_log             \* history: the status rendered at the last ManageStart
                              \* and what it wrote to the status clients

vars == <<windows, outputs, heads, layout_roots,
          tag_focus_history, last_geometry, focused_window, focused_output,
          focused_tags, restrict_focus_to_tiling, pending_focus_dir,
          pending_pointer_warp, config, events_in_sequence, wrap_landing,
          probe, active_river_outputs, window_data, requests, mismatch_run,
          key_bindings, needs_reload, destroyed,
          ipc_clients, last_sent_json, ipc_backlog, broadcast_log>>

BindingVars == <<key_bindings, needs_reload, destroyed>>
IpcVars == <<ipc_clients, last_sent_json, ipc_backlog, broadcast_log>>

---------------------------------------------------------------------------
\* Bounds of the model.

\* Window object ids are 1..MaxWindows.
MaxWindows == 2
\* SpecOutputs has the window object ids 1..MaxOutputWindows.
MaxOutputWindows == 1
\* Tag indices 0..MaxTagIdx are explored (the program allows 0..31).
MaxTagIdx == 1
\* A tree of the state machine has at most MaxLeaves leaves.
MaxLeaves == 2
\* SpecTree: trees of up to MaxProbeLeaves leaves over the ids 1..MaxTreeIds.
MaxProbeLeaves == 3
MaxTreeIds == 3
\* The compositor sends at most MaxBatch events before it starts a manage
\* sequence (WmEvent::ManageStart); the protocol sets no limit.
MaxBatch == 1

---------------------------------------------------------------------------
\* Values.

\* Option<ObjectId>::None
NoWin == 0
\* Option<String>::None
NoOut == ""
\* Option<Direction>::None, Option<(i32, i32)>::None, Option<LayoutNode>::None
NoDir == "None"
NoWarp == [kind |-> "None"]
NoNode == [kind |-> "None"]

Direction == {"Left", "Right", "Up", "Down"}
SplitType == {"Horizontal", "Vertical"}

Geometry(x, y, w, h) == [x |-> x, y |-> y, w |-> w, h |-> h]

\* The only ratio the program ever builds (0.5), as a fraction.
Half == [num |-> 1, den |-> 2]

\* `(v as f32 * ratio) as i32`: the product truncated towards zero.
ScaleByRatio(v, ratio) ==
    IF v >= 0 THEN (v * ratio.num) \div ratio.den
    ELSE -(((-v) * ratio.num) \div ratio.den)

---------------------------------------------------------------------------
\* LayoutNode (src/src/wm/layout.rs).

Window(id) == [kind |-> "Window", id |-> id]

Container(split_type, ratio, left_child, right_child) ==
    [kind |-> "Container", split_type |-> split_type, ratio |-> ratio,
     left_child |-> left_child, right_child |-> right_child]

\* The window ids at the leaves, left to right.
RECURSIVE Leaves(_)
Leaves(node) ==
    IF node.kind = "None" THEN <<>>
    ELSE IF node.kind = "Window" THEN <<node.id>>
    ELSE Leaves(node.left_child) \o Leaves(node.right_child)

LeafSet(node) == {Leaves(node)[i] : i \in 1..Len(Leaves(node))}

\* tree_contains (the helper of WinEvent::AppId).
RECURSIVE tree_contains(_, _)
tree_contains(node, target) ==
    IF node.kind = "Window" THEN node.id = target
    ELSE tree_contains(node.left_child, target) \/ tree_contains(node.right_child, target)

\* An insert_at that puts the new window on the left of the new container.
RECURSIVE insert_at_new_on_left(_, _, _, _)
insert_at_new_on_left(node, target_id, new_win, split) ==
    IF node.kind = "Window" THEN
        IF node.id = target_id
        THEN [found |-> TRUE,
              node |-> Container(split, Half, Window(new_win), Window(node.id))]
        ELSE [found |-> FALSE, node |-> node]
    ELSE
        LET l == insert_at_new_on_left(node.left_child, target_id, new_win, split) IN
        IF l.found
        THEN [found |-> TRUE, node |-> [node EXCEPT !.left_child = l.node]]
        ELSE LET r == insert_at_new_on_left(node.right_child, target_id, new_win, split) IN
             [found |-> r.found, node |-> [node EXCEPT !.right_child = r.node]]

\* insert_at: [found |-> the returned bool, node |-> self after the call].
RECURSIVE insert_at(_, _, _, _)
insert_at(node, target_id, new_win, split) ==
    IF node.kind = "Window" THEN
        IF node.id = target_id
        THEN [found |-> TRUE,
              node |-> Container(split, Half, Window(node.id), Window(new_win))]
        ELSE [found |-> FALSE, node |-> node]
    ELSE
        LET l == insert_at(node.left_child, target_id, new_win, split) IN
        IF l.found
        THEN [found |-> TRUE, node |-> [node EXCEPT !.left_child = l.node]]
        ELSE LET r == insert_at(node.right_child, target_id, new_win, split) IN
             [found |-> r.found, node |-> [node EXCEPT !.right_child = r.node]]

\* A remove_at that forgets the (Some(l), None) arm: removing a right child
\* drops its sibling too.
RECURSIVE remove_at_forgets_left(_, _)
remove_at_forgets_left(node, target_id) ==
    IF node.kind = "Window" THEN
        IF node.id = target_id THEN NoNode ELSE node
    ELSE
        LET new_left == remove_at_forgets_left(node.left_child, target_id)
            new_right == remove_at_forgets_left(node.right_child, target_id)
        IN  IF new_left.kind # "None" /\ new_right.kind # "None"
            THEN [node EXCEPT !.left_child = new_left, !.right_child = new_right]
            ELSE IF new_left.kind = "None" /\ new_right.kind # "None" THEN new_right
            ELSE NoNode

\* remove_at: the new root, or NoNode for None.
RECURSIVE remove_at(_, _)
remove_at(node, target_id) ==
    IF node.kind = "Window" THEN
        IF node.id = target_id THEN NoNode ELSE node
    ELSE
        LET new_left == remove_at(node.left_child, target_id)
            new_right == remove_at(node.right_child, target_id)
        IN  IF new_left.kind # "None" /\ new_right.kind # "None"
            THEN [node EXCEPT !.left_child = new_left, !.right_child = new_right]
            ELSE IF new_left.kind = "None" /\ new_right.kind # "None" THEN new_right
            ELSE IF new_left.kind # "None" /\ new_right.kind = "None" THEN new_left
            ELSE NoNode

\* find_data (inside swap_windows): the payload of the first leaf holding
\* target, NoWin for None.
RECURSIVE find_data(_, _)
find_data(n, target) ==
    IF n.kind = "Window" THEN (IF n.id = target THEN n.id ELSE NoWin)
    ELSE LET l == find_data(n.left_child, target) IN
         IF l # NoWin THEN l ELSE find_data(n.right_child, target)

\* A perform_swap in two passes: first every id1 leaf gets d2, then every id2
\* leaf (the new ones too) gets d1.
RECURSIVE replace_leaf(_, _, _)
replace_leaf(n, from, to) ==
    IF n.kind = "Window" THEN (IF n.id = from THEN Window(to) ELSE n)
    ELSE [n EXCEPT !.left_child = replace_leaf(n.left_child, from, to),
                   !.right_child = replace_leaf(n.right_child, from, to)]

perform_swap_two_passes(n, id1, d1, id2, d2) ==
    replace_leaf(replace_leaf(n, id1, d2), id2, d1)

\* perform_swap (inside swap_windows): one traversal, both replacements.
RECURSIVE perform_swap(_, _, _, _, _)
perform_swap(n, id1, d1, id2, d2) ==
    IF n.kind = "Window" THEN
        IF n.id = id1 THEN Window(d2)
        ELSE IF n.id = id2 THEN Window(d1)
        ELSE n
    ELSE [n EXCEPT !.left_child = perform_swap(n.left_child, id1, d1, id2, d2),
                   !.right_child = perform_swap(n.right_child, id1, d1, id2, d2)]

\* swap_windows: node after the call.
swap_windows(node, id1, id2) ==
    LET d1 == find_data(node, id1)
        d2 == find_data(node, id2)
    IN  IF d1 # NoWin /\ d2 # NoWin
        THEN perform_swap(node, id1, d1, id2, d2)
        ELSE node

\* A variant of calculate_layout that gives the second child the same
\* truncated share as the first.
RECURSIVE calculate_layout_equal_shares(_, _)
calculate_layout_equal_shares(node, area) ==
    IF node.kind = "Window" THEN << <<node.id, area>> >>
    ELSE IF node.split_type = "Vertical" THEN
        LET left_w == ScaleByRatio(area.w, node.ratio) IN
        calculate_layout_equal_shares(node.left_child, [area EXCEPT !.w = left_w])
        \o calculate_layout_equal_shares(node.right_child,
                            [area EXCEPT !.x = area.x + left_w, !.w = left_w])
    ELSE
        LET top_h == ScaleByRatio(area.h, node.ratio) IN
        calculate_layout_equal_shares(node.left_child, [area EXCEPT !.h = top_h])
        \o calculate_layout_equal_shares(node.right_child,
                            [area EXCEPT !.y = area.y + top_h, !.h = top_h])

\* calculate_layout: the results vector, <<window id, Geometry>> per leaf.
RECURSIVE calculate_layout(_, _)
calculate_layout(node, area) ==
    IF node.kind = "Window" THEN << <<node.id, area>> >>
    ELSE IF node.split_type = "Vertical" THEN
        LET left_w == ScaleByRatio(area.w, node.ratio) IN
        calculate_layout(node.left_child, [area EXCEPT !.w = left_w])
        \o calculate_layout(node.right_child,
                            [area EXCEPT !.x = area.x + left_w, !.w = area.w - left_w])
    ELSE
        LET top_h == ScaleByRatio(area.h, node.ratio) IN
        calculate_layout(node.left_child, [area EXCEPT !.h = top_h])
        \o calculate_layout(node.right_child,
                            [area EXCEPT !.y = area.y + top_h, !.h = area.h - top_h])

\* A variant of find_edge_in_tree that descends left at a vertical split
\* whatever the direction.
RECURSIVE find_edge_in_tree_left_of_vertical(_, _)
find_edge_in_tree_left_of_vertical(node, dir) ==
    IF node.kind = "Window" THEN node.id
    ELSE IF node.split_type = "Vertical"
        THEN find_edge_in_tree_left_of_vertical(node.left_child, dir)
    ELSE IF node.split_type = "Horizontal" /\ dir = "Up"
        THEN find_edge_in_tree_left_of_vertical(node.left_child, dir)
    ELSE find_edge_in_tree_left_of_vertical(node.right_child, dir)

\* find_edge_in_tree (src/src/wm/actions.rs).
RECURSIVE find_edge_in_tree(_, _)
find_edge_in_tree(node, dir) ==
    IF node.kind = "Window" THEN node.id
    ELSE IF node.split_type = "Vertical" /\ dir = "Left"
        THEN find_edge_in_tree(node.left_child, dir)
    ELSE IF node.split_type = "Vertical" /\ dir = "Right"
        THEN find_edge_in_tree(node.right_child, dir)
    ELSE IF node.split_type = "Horizontal" /\ dir = "Up"
        THEN find_edge_in_tree(node.left_child, dir)
    ELSE IF node.split_type = "Horizontal" /\ dir = "Down"
        THEN find_edge_in_tree(node.right_child, dir)
    ELSE find_edge_in_tree(node.right_child, dir)

---------------------------------------------------------------------------
\* u32 arithmetic on tag masks.

RECURSIVE BitAnd(_, _)
BitAnd(a, b) ==
    IF a = 0 \/ b = 0 THEN 0
    ELSE (a % 2) * (b % 2) + 2 * BitAnd(a \div 2, b \div 2)

RECURSIVE BitOr(_, _)
BitOr(a, b) ==
    IF a = 0 THEN b
    ELSE IF b = 0 THEN a
    ELSE (IF (a % 2) + (b % 2) > 0 THEN 1 ELSE 0) + 2 * BitOr(a \div 2, b \div 2)

\* u32::trailing_zeros
RECURSIVE trailing_zeros(_)
trailing_zeros(x) ==
    IF x = 0 THEN 32
    ELSE IF x % 2 = 1 THEN 0
    ELSE 1 + trailing_zeros(x \div 2)

\* 32 - x.leading_zeros() - 1, for x # 0: the index of the highest set bit.
RECURSIVE highest_bit(_)
highest_bit(x) == IF x <= 1 THEN 0 ELSE 1 + highest_bit(x \div 2)

\* `1 << n` on u32. For n >= 32 a debug build panics and a release build
\* masks the shift amount: the only value ever produced is 1 << (n % 32).
shl1(n) == 2 ^ (n % 32)

\* u32::saturating_sub(1)
saturating_sub1(n) == IF n = 0 THEN 0 ELSE n - 1

OneHot(x) == x > 0 /\ x = 2 ^ highest_bit(x)

---------------------------------------------------------------------------
\* Registries.

Monitors == {"M1", "M2"}
OneMonitor == {"M1"}
WinIds == 1..MaxWindows
OutputWinIds == 1..MaxOutputWindows

\* The app_id strings of the model, and which of them contain "fcitx".
AppIds == {"kitty", "fcitx5"}
NoAppId == "None"
contains_fcitx(app_id) == app_id \in {"fcitx5"}

\* The index of window id in the Vec, 0 when it is not there.
WinIndex(wins, id) ==
    IF \E i \in 1..Len(wins) : wins[i].id = id
    THEN CHOOSE i \in 1..Len(wins) : wins[i].id = id
    ELSE 0

HasWin(wins, id) == WinIndex(wins, id) # 0
Win(wins, id) == wins[WinIndex(wins, id)]

\* `iter().find(pred)`: the index of the first match, 0 for None.
FirstIndex(S) == IF S = {} THEN 0 ELSE CHOOSE i \in S : \A j \in S : i <= j

\* Vec::retain(|w| w.id != id)
RECURSIVE WithoutWin(_, _)
WithoutWin(wins, id) ==
    IF wins = <<>> THEN <<>>
    ELSE IF Head(wins).id = id THEN WithoutWin(Tail(wins), id)
    ELSE <<Head(wins)>> \o WithoutWin(Tail(wins), id)

\* HashMap insert / remove / get on a TLA+ function.
MapPut(m, k, v) == [x \in DOMAIN m \cup {k} |-> IF x = k THEN v ELSE m[x]]
MapDel(m, k) == [x \in DOMAIN m \ {k} |-> m[x]]
EmptyMap == [x \in {} |-> 0]

ZeroGeometry == Geometry(0, 0, 0, 0)

\* layout_roots after `remove(key)` and re-insert of remove_at's result
\* (the idiom of Closed, ToggleFloat, move_window_to_tag, move_window_to_output).
RemoveLeafAt(roots, key, id) ==
    IF key \in DOMAIN roots
    THEN LET new_root == remove_at(roots[key], id) IN
         IF new_root.kind # "None" THEN MapPut(roots, key, new_root)
         ELSE MapDel(roots, key)
    ELSE roots

---------------------------------------------------------------------------
\* The handlers are written as functions from AppState to AppState: s is the
\* state a method starts in, the value is the state it returns in.

State ==
    [windows |-> windows, outputs |-> outputs, heads |-> heads,
     layout_roots |-> layout_roots, tag_focus_history |-> tag_focus_history,
     last_geometry |-> last_geometry, focused_window |-> focused_window,
     focused_output |-> focused_output, focused_tags |-> focused_tags,
     restrict_focus_to_tiling |-> restrict_focus_to_tiling,
     pending_focus_dir |-> pending_focus_dir,
     pending_pointer_warp |-> pending_pointer_warp, config |-> config,
     wrap_landing |-> wrap_landing]

NoWrap == [phase |-> "none"]

\* The state a handler starts in: the history of the previous one is dropped.
Entry == [State EXCEPT !.wrap_landing = NoWrap]

\* Tag masks have no bit above MaxTagIdx.
TagsInBound(s) ==
    /\ \A m \in DOMAIN s.outputs : s.outputs[m].tags < 2 ^ (MaxTagIdx + 1)
    /\ \A i \in 1..Len(s.windows) : s.windows[i].tags < 2 ^ (MaxTagIdx + 1)
    /\ s.focused_tags < 2 ^ (MaxTagIdx + 1)

\* Trees stay within MaxLeaves leaves (a window can come to be a leaf twice).
TreesInBound(s) ==
    \A k \in DOMAIN s.layout_roots : Len(Leaves(s.layout_roots[k])) <= MaxLeaves

\* The fields of AppState become those of s.
Assign(s) ==
    /\ windows' = s.windows
    /\ outputs' = s.outputs
    /\ heads' = s.heads
    /\ layout_roots' = s.layout_roots
    /\ tag_focus_history' = s.tag_focus_history
    /\ last_geometry' = s.last_geometry
    /\ focused_window' = s.focused_window
    /\ focused_output' = s.focused_output
    /\ focused_tags' = s.focused_tags
    /\ restrict_focus_to_tiling' = s.restrict_focus_to_tiling
    /\ pending_focus_dir' = s.pending_focus_dir
    /\ pending_pointer_warp' = s.pending_pointer_warp
    /\ config' = s.config
    /\ wrap_landing' = s.wrap_landing

\* The handler returns in the AppState s.
Apply(s) ==
    /\ TagsInBound(s)
    /\ TreesInBound(s)
    /\ Assign(s)

Commit(s) ==
    /\ Apply(s)
    /\ UNCHANGED <<probe, active_river_outputs, window_data, requests, mismatch_run,
                   BindingVars, IpcVars>>

\* An event other than ManageStart is handled and leaves the state s.
Handled(s) ==
    /\ events_in_sequence < MaxBatch
    /\ events_in_sequence' = events_in_sequence + 1
    /\ Commit(s)

Min(a, b) == IF a <= b THEN a ELSE b
Max(a, b) == IF a >= b THEN a ELSE b
Abs(a) == IF a < 0 THEN -a ELSE a

\* get_occupied_tags: the tags of every window that has an app_id, or-ed.
RECURSIVE OrTags(_)
OrTags(masks) ==
    IF masks = <<>> THEN 0 ELSE BitOr(Head(masks), OrTags(Tail(masks)))

get_occupied_tags(s) ==
    OrTags([i \in 1..Len(s.windows) |->
              IF s.windows[i].app_id # NoAppId THEN s.windows[i].tags ELSE 0])

\* get_occupied_tags_for_monitor
get_occupied_tags_for_monitor(s, out_name) ==
    OrTags([i \in 1..Len(s.windows) |->
              IF s.windows[i].output = out_name /\ s.windows[i].app_id # NoAppId
              THEN s.windows[i].tags ELSE 0])

\* find_neighbor: the id of the neighbour, NoWin for None. min_by_key keeps the
\* first of several equal minima, in Vec order.
find_neighbor(s, current_id, dir) ==
    IF ~HasWin(s.windows, current_id) \/ current_id \notin DOMAIN s.last_geometry
    THEN NoWin
    ELSE
        LET current_out_name == Win(s.windows, current_id).output
            cur_geo == s.last_geometry[current_id]
            g(i) == s.last_geometry[s.windows[i].id]
            is_in_direction(i) ==
                CASE dir = "Left" -> g(i).x + g(i).w <= cur_geo.x
                  [] dir = "Right" -> g(i).x >= cur_geo.x + cur_geo.w
                  [] dir = "Up" -> g(i).y + g(i).h <= cur_geo.y
                  [] dir = "Down" -> g(i).y >= cur_geo.y + cur_geo.h
            overlap(i) ==
                IF dir \in {"Left", "Right"}
                THEN (IF Max(cur_geo.y, g(i).y) < Min(cur_geo.y + cur_geo.h, g(i).y + g(i).h)
                      THEN 1000 ELSE 0)
                ELSE (IF Max(cur_geo.x, g(i).x) < Min(cur_geo.x + cur_geo.w, g(i).x + g(i).w)
                      THEN 1000 ELSE 0)
            dist(i) ==
                CASE dir = "Left" -> cur_geo.x - (g(i).x + g(i).w)
                  [] dir = "Right" -> g(i).x - (cur_geo.x + cur_geo.w)
                  [] dir = "Up" -> cur_geo.y - (g(i).y + g(i).h)
                  [] dir = "Down" -> g(i).y - (cur_geo.y + cur_geo.h)
            score(i) == dist(i) - overlap(i)
            cands == {i \in 1..Len(s.windows) :
                        /\ s.windows[i].id # current_id
                        /\ BitAnd(s.windows[i].tags, s.focused_tags) # 0
                        /\ s.windows[i].output = current_out_name
                        /\ s.windows[i].id \in DOMAIN s.last_geometry
                        /\ is_in_direction(i)}
        IN  IF cands = {} THEN NoWin
            ELSE s.windows[CHOOSE i \in cands :
                               \A j \in cands :
                                   score(i) < score(j) \/ (score(i) = score(j) /\ i <= j)].id

\* A cycle_tag that ORs the next tag into the monitor's view.
cycle_tag_keeps_old_tag(s, delta, dir) ==
    IF s.focused_output = NoOut \/ s.focused_output \notin DOMAIN s.outputs THEN s
    ELSE
        LET out_id == s.focused_output
            current_tags == s.outputs[out_id].tags
            current_idx == trailing_zeros(current_tags)
            next_idx == IF delta > 0 THEN current_idx + 1 ELSE saturating_sub1(current_idx)
            next_mask == BitOr(current_tags, shl1(next_idx))
        IN  [s EXCEPT
                !.outputs[out_id].tags = next_mask,
                !.focused_tags = next_mask,
                !.wrap_landing = [phase |-> "wrapped", dir |-> dir,
                                  key |-> <<out_id, next_mask>>]]

\* cycle_tag
cycle_tag(s, delta, dir) ==
    IF s.focused_output = NoOut \/ s.focused_output \notin DOMAIN s.outputs THEN s
    ELSE
        LET out_id == s.focused_output
            current_tags == s.outputs[out_id].tags
            current_idx == trailing_zeros(current_tags)
            occupied == get_occupied_tags(s)
            max_occupied_idx == IF occupied = 0 THEN 0 ELSE highest_bit(occupied)
            bound_idx == Min(max_occupied_idx + 1, 31)
            next_idx ==
                IF delta > 0
                THEN (IF current_idx >= bound_idx THEN 0 ELSE current_idx + 1)
                ELSE (IF current_idx = 0 THEN bound_idx ELSE current_idx - 1)
            next_mask == shl1(next_idx)
            tree_key == <<out_id, next_mask>>
            look_dir == IF dir = "Right" THEN "Left" ELSE "Right"
            edge_win ==
                IF tree_key \in DOMAIN s.layout_roots
                THEN find_edge_in_tree(s.layout_roots[tree_key], look_dir)
                ELSE NoWin
        IN  IF next_mask = current_tags THEN s
            ELSE [s EXCEPT
                    !.outputs[out_id].tags = next_mask,
                    !.focused_tags = next_mask,
                    !.focused_window = edge_win,
                    !.tag_focus_history =
                        IF edge_win # NoWin THEN MapPut(@, tree_key, edge_win) ELSE @,
                    !.wrap_landing = [phase |-> "wrapped", dir |-> dir, key |-> tree_key]]

MoveHint == {"Leftmost", "Rightmost", "Topmost", "Bottommost"}

\* A variant of WrapByHint that puts the moved window on the side it moves
\* towards.
WrapByHint_far_side(hint, id, old_root) ==
    CASE hint = "Leftmost" -> Container("Vertical", Half, old_root, Window(id))
      [] hint = "Rightmost" -> Container("Vertical", Half, Window(id), old_root)
      [] hint = "Topmost" -> Container("Horizontal", Half, old_root, Window(id))
      [] hint = "Bottommost" -> Container("Horizontal", Half, Window(id), old_root)

\* The `match hint` of move_window_to_tag and move_window_to_output: the new
\* root made of the moved window and the destination's old root.
WrapByHint(hint, id, old_root) ==
    CASE hint = "Leftmost" -> Container("Vertical", Half, Window(id), old_root)
      [] hint = "Rightmost" -> Container("Vertical", Half, old_root, Window(id))
      [] hint = "Topmost" -> Container("Horizontal", Half, Window(id), old_root)
      [] hint = "Bottommost" -> Container("Horizontal", Half, old_root, Window(id))

\* A variant of InsertByHint that makes the moved window the root of its new
\* tree whatever the tree held.
InsertByHint_replaces_root(roots, key, hint, id) == MapPut(roots, key, Window(id))

InsertByHint(roots, key, hint, id) ==
    IF key \in DOMAIN roots
    THEN MapPut(roots, key, WrapByHint(hint, id, roots[key]))
    ELSE MapPut(roots, key, Window(id))

\* move_window_to_tag
move_window_to_tag(s, win_id, target_mask, follow, hint) ==
    IF ~HasWin(s.windows, win_id) THEN s
    ELSE
        LET idx == WinIndex(s.windows, win_id)
            old_tag == s.windows[idx].tags
            out_id == s.windows[idx].output
            old_key == <<out_id, old_tag>>
            new_key == <<out_id, target_mask>>
            replacement ==
                FirstIndex({i \in 1..Len(s.windows) :
                              /\ s.windows[i].id # win_id
                              /\ s.windows[i].output = out_id
                              /\ BitAnd(s.windows[i].tags, old_tag) # 0})
            history1 ==
                IF old_key \in DOMAIN s.tag_focus_history
                   /\ s.tag_focus_history[old_key] = win_id
                THEN (IF replacement # 0
                      THEN MapPut(s.tag_focus_history, old_key, s.windows[replacement].id)
                      ELSE MapDel(s.tag_focus_history, old_key))
                ELSE s.tag_focus_history
            roots1 == RemoveLeafAt(s.layout_roots, old_key, win_id)
        IN  IF out_id = NoOut \/ old_tag = target_mask THEN s
            ELSE [s EXCEPT
                    !.tag_focus_history = MapPut(history1, new_key, win_id),
                    !.layout_roots = InsertByHint(roots1, new_key, hint, win_id),
                    !.windows[idx].tags = target_mask,
                    !.outputs = IF follow /\ out_id \in DOMAIN @
                                THEN [@ EXCEPT ![out_id].tags = target_mask] ELSE @,
                    !.focused_tags = IF follow /\ out_id \in DOMAIN s.outputs
                                     THEN target_mask ELSE @,
                    !.focused_window = IF follow THEN win_id ELSE @,
                    !.focused_output = IF follow THEN out_id ELSE @]

\* move_window_relative
move_window_relative(s, win_id, delta, hint) ==
    IF ~HasWin(s.windows, win_id) \/ Win(s.windows, win_id).output = NoOut THEN s
    ELSE
        LET out_id == Win(s.windows, win_id).output
            current_tags == IF out_id \in DOMAIN s.outputs THEN s.outputs[out_id].tags ELSE 1
            current_idx == trailing_zeros(current_tags)
            occupied == get_occupied_tags_for_monitor(s, out_id)
            max_occupied_idx == IF occupied = 0 THEN 0 ELSE highest_bit(occupied)
            bound_idx == Min(max_occupied_idx + 1, 31)
            next_idx ==
                IF delta > 0
                THEN (IF current_idx >= bound_idx THEN 0 ELSE current_idx + 1)
                ELSE (IF current_idx = 0 THEN bound_idx ELSE current_idx - 1)
            next_mask == shl1(next_idx)
        IN  move_window_to_tag(s, win_id, next_mask, TRUE, hint)

\* move_window_locally
move_window_locally(s, win_id, dir) ==
    IF ~HasWin(s.windows, win_id) \/ Win(s.windows, win_id).output = NoOut THEN s
    ELSE
        LET out_id == Win(s.windows, win_id).output
            neighbor_id == find_neighbor(s, win_id, dir)
            tree_key == <<out_id, s.focused_tags>>
        IN  IF neighbor_id # NoWin
            THEN [s EXCEPT
                    !.layout_roots =
                        IF tree_key \in DOMAIN @
                        THEN [@ EXCEPT ![tree_key] = swap_windows(@, win_id, neighbor_id)]
                        ELSE @,
                    !.focused_window = win_id,
                    !.tag_focus_history = MapPut(@, tree_key, win_id)]
            ELSE CASE dir = "Left" -> move_window_relative(s, win_id, -1, "Rightmost")
                   [] dir = "Right" -> move_window_relative(s, win_id, 1, "Leftmost")
                   [] OTHER -> s

\* i32 division by two, truncating toward zero.
Half2(v) == IF v >= 0 THEN v \div 2 ELSE -((-v) \div 2)

\* Some((x, y)) of the centre of a rectangle.
CenterOf(g) == [kind |-> "Some", x |-> g.x + Half2(g.w), y |-> g.y + Half2(g.h)]

\* `outputs.iter().collect()` followed by the stable `sort_by_key`: any order
\* of the monitors that is ascending in the key (HashMap iteration order is
\* arbitrary, so monitors with equal keys come in either order).
SortedOutputs(s, dir) ==
    LET names == DOMAIN s.outputs
        n == Cardinality(names)
        key(m) == IF dir \in {"Left", "Right"}
                  THEN s.outputs[m].usable_area.x ELSE s.outputs[m].usable_area.y
    IN  {ord \in [1..n -> names] :
            /\ \A i, j \in 1..n : i # j => ord[i] # ord[j]
            /\ \A i, j \in 1..n : i < j => key(ord[i]) <= key(ord[j])}

\* The index after / before pos in a cycle of n (1-based).
NextPos(pos, n, dir) ==
    IF dir \in {"Right", "Down"} THEN (pos % n) + 1 ELSE ((pos + n - 2) % n) + 1

PosOf(sorted, name) ==
    FirstIndex({i \in DOMAIN sorted : sorted[i] = name})

\* A variant of cycle_output_focus that lands on the edge it moves towards.
cycle_output_focus_lands_on_far_edge(s, dir, sorted) ==
    LET current_out == s.focused_output
        pos == PosOf(sorted, current_out)
        next_idx == NextPos(pos, Len(sorted), dir)
    IN  IF current_out = NoOut \/ pos = 0 \/ next_idx = pos THEN s
        ELSE
            LET next_id == sorted[next_idx]
                next_data == s.outputs[next_id]
                next_monitor_tags == next_data.tags
                landing_dir == dir
                tree_key == <<next_id, next_monitor_tags>>
                edge_win ==
                    IF tree_key \in DOMAIN s.layout_roots
                    THEN find_edge_in_tree(s.layout_roots[tree_key], landing_dir)
                    ELSE NoWin
            IN  [s EXCEPT
                    !.focused_window = edge_win,
                    !.tag_focus_history =
                        IF edge_win # NoWin THEN MapPut(@, tree_key, edge_win) ELSE @,
                    !.pending_pointer_warp =
                        IF edge_win # NoWin
                        THEN (IF edge_win \in DOMAIN s.last_geometry
                              THEN CenterOf(s.last_geometry[edge_win]) ELSE @)
                        ELSE CenterOf(next_data.usable_area),
                    !.focused_output = next_id,
                    !.focused_tags = next_monitor_tags]

\* cycle_output_focus, for the order `sorted` the sort produced
cycle_output_focus(s, dir, sorted) ==
    LET current_out == s.focused_output
        pos == PosOf(sorted, current_out)
        next_idx == NextPos(pos, Len(sorted), dir)
    IN  IF current_out = NoOut \/ pos = 0 \/ next_idx = pos THEN s
        ELSE
            LET next_id == sorted[next_idx]
                next_data == s.outputs[next_id]
                next_monitor_tags == next_data.tags
                landing_dir ==
                    CASE dir = "Up" -> "Down" [] dir = "Down" -> "Up"
                      [] dir = "Left" -> "Right" [] dir = "Right" -> "Left"
                tree_key == <<next_id, next_monitor_tags>>
                edge_win ==
                    IF tree_key \in DOMAIN s.layout_roots
                    THEN find_edge_in_tree(s.layout_roots[tree_key], landing_dir)
                    ELSE NoWin
            IN  [s EXCEPT
                    !.focused_window = edge_win,
                    !.tag_focus_history =
                        IF edge_win # NoWin THEN MapPut(@, tree_key, edge_win) ELSE @,
                    !.pending_pointer_warp =
                        IF edge_win # NoWin
                        THEN (IF edge_win \in DOMAIN s.last_geometry
                              THEN CenterOf(s.last_geometry[edge_win]) ELSE @)
                        ELSE CenterOf(next_data.usable_area),
                    !.focused_output = next_id,
                    !.focused_tags = next_monitor_tags]

\* move_window_to_output, for the order `sorted` the sort produced
move_window_to_output(s, win_id, dir, sorted) ==
    IF ~HasWin(s.windows, win_id) \/ Win(s.windows, win_id).output = NoOut THEN s
    ELSE
        LET idx == WinIndex(s.windows, win_id)
            old_out_name == s.windows[idx].output
            win_tags == s.windows[idx].tags
            pos == PosOf(sorted, old_out_name)
            next_idx == NextPos(pos, Len(sorted), dir)
        IN  IF pos = 0 \/ next_idx = pos THEN s
            ELSE
                LET next_out_name == sorted[next_idx]
                    next_out_data == s.outputs[next_out_name]
                    target_monitor_tags == next_out_data.tags
                    hint ==
                        CASE dir = "Right" -> "Leftmost" [] dir = "Left" -> "Rightmost"
                          [] dir = "Down" -> "Topmost" [] dir = "Up" -> "Bottommost"
                    old_key == <<old_out_name, win_tags>>
                    new_key == <<next_out_name, target_monitor_tags>>
                IN  [s EXCEPT
                        !.layout_roots =
                            InsertByHint(RemoveLeafAt(@, old_key, win_id), new_key, hint, win_id),
                        !.windows[idx].output = next_out_name,
                        !.windows[idx].tags = target_monitor_tags,
                        !.focused_output = next_out_name,
                        !.focused_tags = target_monitor_tags,
                        !.focused_window = win_id,
                        !.tag_focus_history = MapPut(@, new_key, win_id),
                        !.pending_pointer_warp = CenterOf(next_out_data.usable_area)]

\* The candidates of focus_floating_in_direction after its sort_by: ascending
\* in (x, y, id) for Left / Right and in (y, x, id) for Up / Down.
\* A variant of FloatBefore that orders the floats by id alone.
FloatBefore_by_id(a, b, dir) == a.id < b.id

FloatBefore(a, b, dir) ==
    LET a1 == IF dir \in {"Left", "Right"} THEN a.float_geo.x ELSE a.float_geo.y
        b1 == IF dir \in {"Left", "Right"} THEN b.float_geo.x ELSE b.float_geo.y
        a2 == IF dir \in {"Left", "Right"} THEN a.float_geo.y ELSE a.float_geo.x
        b2 == IF dir \in {"Left", "Right"} THEN b.float_geo.y ELSE b.float_geo.x
    IN  a1 < b1 \/ (a1 = b1 /\ (a2 < b2 \/ (a2 = b2 /\ a.id < b.id)))

\* focus_floating_in_direction
focus_floating_in_direction(s, dir) ==
    LET f_id == s.focused_window IN
    IF f_id = NoWin \/ ~HasWin(s.windows, f_id) \/ Win(s.windows, f_id).output = NoOut THEN s
    ELSE
        LET current_out == Win(s.windows, f_id).output
            current_tags == Win(s.windows, f_id).tags
            candidates == {i \in 1..Len(s.windows) :
                             /\ s.windows[i].is_floating
                             /\ ~s.windows[i].is_fullscreen
                             /\ s.windows[i].output = current_out
                             /\ BitAnd(s.windows[i].tags, current_tags) # 0}
            len == Cardinality(candidates)
            rank(i) == Cardinality({j \in candidates :
                                      FloatBefore(s.windows[j], s.windows[i], dir)})
            cur_idx == rank(WinIndex(s.windows, f_id))
            target_idx ==
                IF dir \in {"Left", "Up"}
                THEN (IF cur_idx = 0 THEN len - 1 ELSE cur_idx - 1)
                ELSE (IF cur_idx = len - 1 THEN 0 ELSE cur_idx + 1)
            target == s.windows[CHOOSE i \in candidates : rank(i) = target_idx].id
        IN  IF len <= 1
            THEN CASE dir = "Left" -> cycle_tag(s, -1, dir)
                   [] dir = "Right" -> cycle_tag(s, 1, dir)
                   [] OTHER -> s
            ELSE IF WinIndex(s.windows, f_id) \notin candidates THEN s
            ELSE [s EXCEPT
                    !.focused_window = target,
                    !.tag_focus_history = MapPut(@, <<current_out, current_tags>>, target)]

---------------------------------------------------------------------------
\* perform_action, one operator per Action.

\* 0.6 as a fraction
\* A variant of FloatRatio: half of the usable area.
FloatRatio_half == [num |-> 1, den |-> 2]

FloatRatio == [num |-> 3, den |-> 5]
CascadeStep == 25
CascadeSlots == 10
CascadeNear == 5

\* Action::ToggleFloat
ToggleFloat(s) ==
    LET f_id == s.focused_window IN
    IF f_id = NoWin \/ ~HasWin(s.windows, f_id) \/ Win(s.windows, f_id).output = NoOut THEN s
    ELSE
        LET idx == WinIndex(s.windows, f_id)
            out_name == s.windows[idx].output
            win_tags == s.windows[idx].tags
            is_now_floating == ~s.windows[idx].is_floating
            tree_key == <<out_name, win_tags>>
            screen == s.outputs[out_name].usable_area
            w == ScaleByRatio(screen.w, FloatRatio)
            h == ScaleByRatio(screen.h, FloatRatio)
            base_x == screen.x + Half2(screen.w - w)
            base_y == screen.y + Half2(screen.h - h)
            collision(slot) ==
                \E i \in 1..Len(s.windows) :
                    /\ s.windows[i].id # f_id
                    /\ s.windows[i].is_floating
                    /\ s.windows[i].output = out_name
                    /\ BitAnd(s.windows[i].tags, win_tags) # 0
                    /\ Abs(s.windows[i].float_geo.x - (base_x + slot * CascadeStep)) < CascadeNear
                    /\ Abs(s.windows[i].float_geo.y - (base_y + slot * CascadeStep)) < CascadeNear
            free == {slot \in 0..(CascadeSlots - 1) : ~collision(slot)}
            final_slot == IF free = {} THEN 0 ELSE CHOOSE a \in free : \A b \in free : a <= b
            offset == final_slot * CascadeStep
            target_id == IF tree_key \in DOMAIN s.tag_focus_history
                         THEN s.tag_focus_history[tree_key] ELSE f_id
            ins == insert_at(s.layout_roots[tree_key], target_id, f_id, "Vertical")
        IN  IF is_now_floating
            THEN [s EXCEPT
                    !.windows[idx].is_floating = TRUE,
                    !.windows[idx].float_geo =
                        IF out_name \in DOMAIN s.outputs
                        THEN Geometry(base_x + offset, base_y + offset, w, h) ELSE @,
                    !.layout_roots = RemoveLeafAt(@, tree_key, f_id)]
            ELSE [s EXCEPT
                    !.windows[idx].is_floating = FALSE,
                    !.layout_roots =
                        IF tree_key \notin DOMAIN @ THEN MapPut(@, tree_key, Window(f_id))
                        ELSE IF ins.found THEN MapPut(@, tree_key, ins.node)
                        ELSE MapPut(@, tree_key,
                                    Container("Vertical", Half, @[tree_key], Window(f_id)))]

\* Action::SwitchFocusFloat
SwitchFocusFloat(s) ==
    LET f_id == s.focused_window IN
    IF f_id = NoWin \/ ~HasWin(s.windows, f_id) \/ Win(s.windows, f_id).output = NoOut THEN s
    ELSE
        LET out_name == Win(s.windows, f_id).output
            target_is_floating == ~Win(s.windows, f_id).is_floating
            candidate ==
                FirstIndex({i \in 1..Len(s.windows) :
                              /\ s.windows[i].output = out_name
                              /\ BitAnd(s.windows[i].tags, s.focused_tags) # 0
                              /\ s.windows[i].is_floating = target_is_floating})
        IN  IF candidate = 0 THEN s
            ELSE [s EXCEPT !.focused_window = s.windows[candidate].id]

\* Action::FocusTag(mask)
FocusTag(s, mask) ==
    IF s.focused_output # NoOut /\ s.focused_output \in DOMAIN s.outputs
    THEN [s EXCEPT !.outputs[s.focused_output].tags = mask, !.focused_tags = mask]
    ELSE s

\* Action::MoveToTag(target_mask)
MoveToTag(s, target_mask) ==
    IF s.focused_window # NoWin
    THEN move_window_to_tag(s, s.focused_window, target_mask, TRUE, "Leftmost")
    ELSE s

\* Action::Move(dir)
Move(s, dir) ==
    IF s.focused_window # NoWin THEN move_window_locally(s, s.focused_window, dir) ELSE s

\* Action::MoveToOutput(dir)
MoveToOutput(s, dir, sorted) ==
    IF s.focused_window # NoWin
    THEN move_window_to_output(s, s.focused_window, dir, sorted)
    ELSE s

\* Action::Focus(dir)
Focus(s, dir) ==
    LET f_id == s.focused_window
        is_floating_focus ==
            /\ f_id # NoWin
            /\ HasWin(s.windows, f_id)
            /\ Win(s.windows, f_id).is_floating
            /\ ~Win(s.windows, f_id).is_fullscreen
        s1 == [s EXCEPT !.restrict_focus_to_tiling = TRUE, !.pending_focus_dir = dir]
        new_focus == IF f_id # NoWin THEN find_neighbor(s1, f_id, dir) ELSE NoWin
        out_id == Win(s1.windows, new_focus).output
    IN  IF is_floating_focus THEN focus_floating_in_direction(s, dir)
        ELSE IF new_focus # NoWin
        THEN [s1 EXCEPT
                !.focused_window = new_focus,
                !.tag_focus_history =
                    IF out_id # NoOut THEN MapPut(@, <<out_id, s1.focused_tags>>, new_focus)
                    ELSE @]
        ELSE CASE dir = "Right" -> cycle_tag(s1, 1, dir)
               [] dir = "Left" -> cycle_tag(s1, -1, dir)
               [] OTHER -> s1

\* from_config: the mask of the actions "focus_tag N" and "move_to_tag N",
\* `1 << idx.saturating_sub(1)` (the shift amount wraps at the width of u32).
TagMaskOfArg(idx) == shl1(saturating_sub1(idx))

---------------------------------------------------------------------------
\* Monitors: heads, the output configuration pass, bar reservations.

\* The modes a head offers (ModeInfo width x height), and Option::None.
Mode1080 == [w |-> 1920, h |-> 1080]
Mode1440 == [w |-> 2560, h |-> 1440]
AllModes == {Mode1080, Mode1440}
NoMode == [kind |-> "None"]
NoPos == [kind |-> "None"]
\* `config.output.get(name)` when the monitor has no table.
NoCfg == [kind |-> "None"]

\* OutputData as HeadEvent::Name and apply_output_configs first insert it.
NewOutputData == [usable_area |-> ZeroGeometry, full_area |-> ZeroGeometry, tags |-> 1]

\* config.output: no [output] table, which is Config::default().
DefaultConfig == [output |-> EmptyMap]

\* `(phys as f64 / scale).ceil() as i32` for the integral scales of the model.
CeilDiv(phys, scale) == (phys + scale - 1) \div scale

Rotated(transform) == transform \in {"90", "270", "flipped-90", "flipped-270"}

CfgOf(s, name) ==
    IF name \in DOMAIN s.config.output THEN s.config.output[name] ELSE NoCfg

cfg_scale(cfg) == IF cfg = NoCfg THEN 1 ELSE cfg.scale
parse_transform(cfg) == IF cfg = NoCfg THEN "normal" ELSE cfg.transform

\* get_output_geometry: [log_w, target_mode]
get_output_geometry(head_info, cfg, scale) ==
    LET target_mode ==
            IF cfg # NoCfg /\ cfg.mode # NoMode /\ cfg.mode \in head_info.modes
            THEN cfg.mode ELSE NoMode
        phys ==
            IF target_mode # NoMode THEN target_mode
            ELSE IF head_info.current_mode # NoMode
                    /\ head_info.current_mode \in head_info.modes
            THEN head_info.current_mode
            ELSE Mode1080
        log_w == IF Rotated(parse_transform(cfg))
                 THEN CeilDiv(phys.h, scale) ELSE CeilDiv(phys.w, scale)
    IN  [log_w |-> log_w, target_mode |-> target_mode]

\* The first loop of apply_output_configs from head i on: the FinalConfig
\* records, in head order.
RECURSIVE calculated_from(_, _, _)
calculated_from(s, i, cursor_x) ==
    IF i > Len(s.heads) THEN <<>>
    ELSE
        LET head == s.heads[i]
            cfg == CfgOf(s, head.name)
            scale == cfg_scale(cfg)
            geo == get_output_geometry(head, cfg, scale)
            transform == parse_transform(cfg)
            phys == IF geo.target_mode # NoMode THEN geo.target_mode ELSE Mode1080
            log_h == IF Rotated(transform)
                     THEN CeilDiv(phys.w, scale) ELSE CeilDiv(phys.h, scale)
            x == IF cfg # NoCfg /\ cfg.position # NoPos THEN cfg.position.x ELSE cursor_x
            y == IF cfg # NoCfg /\ cfg.position # NoPos THEN cfg.position.y ELSE 0
        IN  << [name |-> head.name, x |-> x, y |-> y, w |-> geo.log_w, h |-> log_h] >>
            \o calculated_from(s, i + 1, Max(cursor_x, x + geo.log_w))

\* The second loop of apply_output_configs: full_area from the FinalConfig,
\* usable_area keeps the paddings it had.
RECURSIVE with_new_areas(_, _)
with_new_areas(outs, calculated) ==
    IF calculated = <<>> THEN outs
    ELSE
        LET res == Head(calculated)
            old == IF res.name \in DOMAIN outs THEN outs[res.name] ELSE NewOutputData
            keep == old.full_area.w > 0 /\ old.full_area.h > 0
            pad_x == IF keep THEN old.usable_area.x - old.full_area.x ELSE 0
            pad_y == IF keep THEN old.usable_area.y - old.full_area.y ELSE 0
            pad_w == IF keep THEN old.full_area.w - old.usable_area.w ELSE 0
            pad_h == IF keep THEN old.full_area.h - old.usable_area.h ELSE 0
            new_full == Geometry(res.x, res.y, res.w, res.h)
        IN  with_new_areas(
                MapPut(outs, res.name,
                       [old EXCEPT
                          !.full_area = new_full,
                          !.usable_area = Geometry(new_full.x + pad_x, new_full.y + pad_y,
                                                   new_full.w - pad_w, new_full.h - pad_h)]),
                Tail(calculated))

\* apply_output_configs
apply_output_configs(s) ==
    LET calculated == calculated_from(s, 1, 0)
        startup == {i \in 1..Len(s.heads) :
                      /\ CfgOf(s, s.heads[i].name) # NoCfg
                      /\ CfgOf(s, s.heads[i].name).focus_at_startup}
        target == IF startup # {} THEN FirstIndex(startup)
                  ELSE IF Len(calculated) > 0 THEN 1 ELSE 0
    IN  [s EXCEPT
            !.outputs = with_new_areas(@, calculated),
            !.pending_pointer_warp =
                IF target # 0
                THEN CenterOf(Geometry(calculated[target].x, calculated[target].y,
                                       calculated[target].w, calculated[target].h))
                ELSE @,
            !.focused_output = IF target # 0 THEN calculated[target].name ELSE @]

\* MgrEvent::Head, then the HeadEvent::Name, Mode (with its size) and
\* CurrentMode events of that head, which arrive before the next Done.
HeadAnnounced(s, name, current_mode) ==
    [s EXCEPT
        !.heads = Append(@, [name |-> name, modes |-> AllModes,
                             current_mode |-> current_mode]),
        !.outputs = IF name \in DOMAIN @ THEN @ ELSE MapPut(@, name, NewOutputData),
        !.focused_output = IF @ = NoOut THEN name ELSE @]

\* The rectangle the compositor gives an output once the configuration the
\* program sent is applied: the position it asked for, and the size of the
\* mode in effect (the one it set, else the head's current mode).
RealArea(s, name) ==
    LET head == s.heads[FirstIndex({i \in 1..Len(s.heads) : s.heads[i].name = name})]
        cfg == CfgOf(s, name)
        scale == cfg_scale(cfg)
        target_mode == get_output_geometry(head, cfg, scale).target_mode
        mode == IF target_mode # NoMode THEN target_mode ELSE head.current_mode
        full == s.outputs[name].full_area
    IN  IF Rotated(parse_transform(cfg))
        THEN Geometry(full.x, full.y, CeilDiv(mode.h, scale), CeilDiv(mode.w, scale))
        ELSE Geometry(full.x, full.y, CeilDiv(mode.w, scale), CeilDiv(mode.h, scale))

\* LayerOutEvent::NonExclusiveArea, when the HashMap iteration meets `name`
\* first among the monitors that hold the centre of the rectangle.
NonExclusiveAreaMatches(s, name, area) ==
    LET bar_cx == area.x + Half2(area.w)
        bar_cy == area.y + Half2(area.h)
        g == s.outputs[name].full_area
    IN  /\ g.w > 0
        /\ bar_cx >= g.x /\ bar_cx < g.x + g.w
        /\ bar_cy >= g.y /\ bar_cy < g.y + g.h

NonExclusiveAreaOn(s, name, area) == [s EXCEPT !.outputs[name].usable_area = area]

---------------------------------------------------------------------------
\* Event handlers (src/src/wm/mod.rs).

\* WmEvent::Window
WindowCreated(s, id) ==
    [s EXCEPT !.windows =
        Append(@, [id |-> id, tags |-> s.focused_tags, app_id |-> NoAppId,
                   output |-> s.focused_output, is_fullscreen |-> FALSE,
                   is_floating |-> FALSE, float_geo |-> ZeroGeometry])]

\* WinEvent::Closed
Closed(s, id) ==
    LET idx == WinIndex(s.windows, id)
        win_tag == s.windows[idx].tags
        out_id == s.windows[idx].output
        tree_key == <<out_id, win_tag>>
        other == FirstIndex({i \in 1..Len(s.windows) :
                               /\ s.windows[i].id # id
                               /\ BitAnd(s.windows[i].tags, win_tag) # 0
                               /\ s.windows[i].output = out_id})
        s1 == IF idx = 0 \/ out_id = NoOut THEN s
              ELSE [s EXCEPT
                      !.layout_roots = RemoveLeafAt(@, tree_key, id),
                      !.tag_focus_history =
                          IF tree_key \in DOMAIN @ /\ @[tree_key] = id
                          THEN (IF other # 0 THEN MapPut(@, tree_key, s.windows[other].id)
                                ELSE MapDel(@, tree_key))
                          ELSE @]
    IN  [s1 EXCEPT !.windows = WithoutWin(@, id), !.last_geometry = MapDel(@, id)]

\* WinEvent::AppId; any_output is what `outputs.keys().next()` yields.
AppId(s, id, app_id, any_output) ==
    LET idx == WinIndex(s.windows, id)
        out_id == IF s.windows[idx].output # NoOut THEN s.windows[idx].output
                  ELSE IF s.focused_output # NoOut THEN s.focused_output
                  ELSE any_output
        s1 == [s EXCEPT !.windows[idx].app_id = app_id, !.windows[idx].output = out_id]
        already_tiled == \E k \in DOMAIN s1.layout_roots : tree_contains(s1.layout_roots[k], id)
        current_tag == s1.focused_tags
        tree_key == <<out_id, current_tag>>
        target_id == IF tree_key \in DOMAIN s1.tag_focus_history
                     THEN s1.tag_focus_history[tree_key] ELSE id
        split == IF target_id \in DOMAIN s1.last_geometry
                 THEN (IF s1.last_geometry[target_id].w > s1.last_geometry[target_id].h
                       THEN "Vertical" ELSE "Horizontal")
                 ELSE "Vertical"
        ins == insert_at(s1.layout_roots[tree_key], target_id, id, split)
    IN  IF idx = 0 THEN s
        ELSE IF app_id = NoAppId \/ contains_fcitx(app_id) \/ out_id = NoOut THEN s1
        ELSE IF already_tiled THEN s1
        ELSE [s1 EXCEPT
                !.layout_roots =
                    IF tree_key \notin DOMAIN @ THEN MapPut(@, tree_key, Window(id))
                    ELSE IF ins.found THEN MapPut(@, tree_key, ins.node)
                    ELSE MapPut(@, tree_key,
                                Container("Vertical", Half, @[tree_key], Window(id))),
                !.focused_window = id,
                !.focused_output = out_id,
                !.tag_focus_history = MapPut(@, tree_key, id)]

\* SeatEvent::PointerPosition, when the iteration finds `name` first.
PointerPositionIn(s, name, x, y) ==
    LET g == s.outputs[name].usable_area
    IN  x >= g.x /\ x < g.x + g.w /\ y >= g.y /\ y < g.y + g.h

PointerPosition(s, found_name) ==
    IF found_name # NoOut /\ s.focused_output # found_name
    THEN [s EXCEPT !.focused_output = found_name]
    ELSE s

\* SeatEvent::WindowInteraction
WindowInteraction(s, id) ==
    LET idx == WinIndex(s.windows, id)
        out_id == s.windows[idx].output
    IN  IF idx = 0 \/ out_id = NoOut THEN [s EXCEPT !.focused_window = id]
        ELSE [s EXCEPT
                !.focused_window = id,
                !.focused_output = out_id,
                !.tag_focus_history = MapPut(@, <<out_id, s.windows[idx].tags>>, id)]

\* The layout pass of ManageStart for one monitor: last_geometry after the
\* results of its tree are stored (gaps and borders are 0 without a [window]
\* table, so a rectangle is only clamped to 1 x 1).
RECURSIVE store_results(_, _, _)
store_results(geo, results, wins) ==
    IF results = <<>> THEN geo
    ELSE
        LET id == Head(results)[1]
            geom == Head(results)[2]
        IN  store_results(
                IF HasWin(wins, id)
                THEN MapPut(geo, id, Geometry(geom.x, geom.y, Max(geom.w, 1), Max(geom.h, 1)))
                ELSE geo,
                Tail(results), wins)

\* The layout pass over the monitors in the order `ord` of the HashMap.
RECURSIVE layout_pass(_, _, _)
layout_pass(s, geo, ord) ==
    IF ord = <<>> THEN geo
    ELSE
        LET out_id == Head(ord)
            out_data == s.outputs[out_id]
            tree_key == <<out_id, out_data.tags>>
        IN  layout_pass(
                s,
                IF tree_key \in DOMAIN s.layout_roots
                THEN store_results(geo,
                                   calculate_layout(s.layout_roots[tree_key],
                                                    out_data.usable_area),
                                   s.windows)
                ELSE geo,
                Tail(ord))

\* The orders in which a HashMap may yield the monitors.
OutputOrders(s) ==
    LET names == DOMAIN s.outputs
        n == Cardinality(names)
    IN  {ord \in [1..n -> names] : \A i, j \in 1..n : i # j => ord[i] # ord[j]}

\* WmEvent::ManageStart
ManageStart(s, ord) ==
    LET s1 == [s EXCEPT
                  !.pending_pointer_warp = NoWarp,
                  !.focused_tags =
                      IF s.focused_output # NoOut /\ s.focused_output \in DOMAIN s.outputs
                      THEN s.outputs[s.focused_output].tags ELSE @]
        needs_restore ==
            \/ s1.focused_window = NoWin
            \/ ~\E i \in 1..Len(s1.windows) :
                   /\ s1.windows[i].id = s1.focused_window
                   /\ BitAnd(s1.windows[i].tags, s1.focused_tags) # 0
        hkey == <<s1.focused_output, s1.focused_tags>>
        from_history ==
            IF /\ s1.focused_output # NoOut
               /\ hkey \in DOMAIN s1.tag_focus_history
               /\ HasWin(s1.windows, s1.tag_focus_history[hkey])
               /\ (~s1.restrict_focus_to_tiling
                   \/ ~Win(s1.windows, s1.tag_focus_history[hkey]).is_floating)
            THEN s1.tag_focus_history[hkey] ELSE NoWin
        tiled == FirstIndex({i \in 1..Len(s1.windows) :
                               /\ BitAnd(s1.windows[i].tags, s1.focused_tags) # 0
                               /\ ~s1.windows[i].is_floating
                               /\ s1.windows[i].output = s1.focused_output})
        floats == {i \in 1..Len(s1.windows) :
                     /\ BitAnd(s1.windows[i].tags, s1.focused_tags) # 0
                     /\ s1.windows[i].is_floating
                     /\ s1.windows[i].output = s1.focused_output}
        fx(i) == s1.windows[i].float_geo.x
        by_direction ==
            CASE s1.pending_focus_dir = "Left" ->
                     \* max_by_key: the last of the maxima
                     CHOOSE i \in floats : \A j \in floats :
                         fx(i) > fx(j) \/ (fx(i) = fx(j) /\ i >= j)
              [] s1.pending_focus_dir = "Right" ->
                     \* min_by_key: the first of the minima
                     CHOOSE i \in floats : \A j \in floats :
                         fx(i) < fx(j) \/ (fx(i) = fx(j) /\ i <= j)
              [] OTHER -> FirstIndex(floats)
        candidate ==
            IF from_history # NoWin THEN from_history
            ELSE IF tiled # 0 THEN s1.windows[tiled].id
            ELSE IF s1.restrict_focus_to_tiling /\ s1.pending_focus_dir # NoDir
                    /\ floats # {}
            THEN s1.windows[by_direction].id
            ELSE NoWin
    IN  [s1 EXCEPT
            !.focused_window = IF needs_restore THEN candidate ELSE @,
            !.restrict_focus_to_tiling = FALSE,
            !.pending_focus_dir = NoDir,
            !.last_geometry = layout_pass(s1, EmptyMap, ord),
            !.wrap_landing = IF @.phase = "wrapped" THEN [@ EXCEPT !.phase = "settled"]
                             ELSE NoWrap]

---------------------------------------------------------------------------
\* The state machine.

NoProbe == [op |-> "none"]

\* Nothing was sent yet.
NoRequests == [run |-> "none", seq |-> <<>>]

\* The empty string, as a status.
EmptyJson == [text |-> <<>>, tooltip |-> ""]

\* No ManageStart ran yet.
NoBroadcast == [rendered |-> EmptyJson, written |-> <<>>]

\* No dimensions report mismatched yet.
NoRun == [reports |-> 0, dirty |-> 0, warned |-> 0]

\* The run of mismatching reports of a window.
RunOf(runs, id) == IF id \in DOMAIN runs THEN runs[id] ELSE NoRun

\* AppState as main constructs it: empty collections, nothing focused, the
\* tag shadow on tag 1 (the tag every monitor is registered with).
ConstructedWith(loaded) ==
    /\ windows = <<>>
    /\ outputs = EmptyMap
    /\ heads = <<>>
    /\ layout_roots = EmptyMap
    /\ tag_focus_history = EmptyMap
    /\ last_geometry = EmptyMap
    /\ focused_window = NoWin
    /\ focused_output = NoOut
    /\ focused_tags = 1
    /\ restrict_focus_to_tiling = FALSE
    /\ pending_focus_dir = NoDir
    /\ pending_pointer_warp = NoWarp
    /\ config = loaded
    /\ events_in_sequence = 0
    /\ wrap_landing = NoWrap
    /\ active_river_outputs = <<>>
    /\ window_data = EmptyMap
    /\ requests = NoRequests
    /\ mismatch_run = EmptyMap
    /\ key_bindings = <<>>
    /\ needs_reload = FALSE
    /\ destroyed = {}
    /\ ipc_clients = <<>>
    /\ last_sent_json = EmptyJson
    /\ ipc_backlog = 0
    /\ broadcast_log = NoBroadcast

\* No configuration file was found.
Constructed == ConstructedWith(DefaultConfig)

Init == Constructed /\ probe = NoProbe

\* The compositor never reuses the id of a window object the program still
\* refers to.
Referenced(id) ==
    \/ HasWin(windows, id)
    \/ focused_window = id
    \/ id \in DOMAIN last_geometry
    \/ \E k \in DOMAIN layout_roots : tree_contains(layout_roots[k], id)
    \/ \E k \in DOMAIN tag_focus_history : tag_focus_history[k] = id

HeadNames == {heads[i].name : i \in 1..Len(heads)}

\* The arguments of the "focus N" / "move N" bindings of the model.
TagArgs == (0..(MaxTagIdx + 1)) \cup {33}

\* Where the pointer is reported: the centres of the two 1920 x 1080 slots.
PointerPoints == {<<960, 540>>, <<2880, 540>>}

\* The compositor shows a window on the tag its monitor views.
Shown(id) ==
    /\ HasWin(windows, id)
    /\ Win(windows, id).output \in DOMAIN outputs
    /\ BitAnd(Win(windows, id).tags, outputs[Win(windows, id).output].tags) # 0

\* The output manager reports new heads and then Done: MgrEvent::Head and the
\* head's events for each of `names`, in that order, then MgrEvent::Done.
RECURSIVE heads_announced(_, _, _)
heads_announced(s, names, current_mode) ==
    IF names = <<>> THEN s
    ELSE heads_announced(HeadAnnounced(s, Head(names), current_mode), Tail(names),
                         current_mode)

NewHeadBatches(monitors) ==
    LET new == monitors \ HeadNames
    IN  {names \in UNION {[1..n -> new] : n \in 1..Cardinality(new)} :
            \A i, j \in 1..Len(names) : i # j => names[i] # names[j]}

HeadsDone(monitors, current_modes) ==
    \E names \in NewHeadBatches(monitors), current_mode \in current_modes :
        Handled(apply_output_configs(heads_announced(Entry, names, current_mode)))

\* MgrEvent::Done without a new head (the compositor changed the serial).
OutputDone ==
    /\ Len(heads) > 0
    /\ Handled(apply_output_configs(Entry))

WindowEvent(ids) ==
    \E id \in ids :
        /\ ~Referenced(id)
        /\ Handled(WindowCreated(Entry, id))

AppIdEvent(ids, app_ids) ==
    \E id \in ids, app_id \in app_ids,
       any_output \in (IF outputs = EmptyMap THEN {NoOut} ELSE DOMAIN outputs) :
        /\ HasWin(windows, id)
        /\ Handled(AppId(Entry, id, app_id, any_output))

ClosedEvent(ids) ==
    \E id \in ids :
        /\ HasWin(windows, id)
        /\ Handled(Closed(Entry, id))

PointerPositionEvent ==
    \E pt \in PointerPoints, found_name \in DOMAIN outputs \cup {NoOut} :
        /\ IF found_name = NoOut
           THEN \A m \in DOMAIN outputs : ~PointerPositionIn(Entry, m, pt[1], pt[2])
           ELSE PointerPositionIn(Entry, found_name, pt[1], pt[2])
        /\ Handled(PointerPosition(Entry, found_name))

WindowInteractionEvent(ids) ==
    \E id \in ids :
        /\ Shown(id)
        /\ Handled(WindowInteraction(Entry, id))

ManageStartEvent ==
    \E ord \in OutputOrders(Entry) :
        /\ events_in_sequence' = 0
        /\ Commit(ManageStart(State, ord))

PressToggleFloat == Handled(ToggleFloat(Entry))
PressSwitchFocusFloat == Handled(SwitchFocusFloat(Entry))

PressFocusOutput ==
    \E dir \in Direction : \E sorted \in SortedOutputs(Entry, dir) :
        Handled(cycle_output_focus(Entry, dir, sorted))

PressMoveToOutput ==
    \E dir \in Direction : \E sorted \in SortedOutputs(Entry, dir) :
        Handled(MoveToOutput(Entry, dir, sorted))

PressFocusTag == \E n \in TagArgs : Handled(FocusTag(Entry, TagMaskOfArg(n)))
PressMoveToTag == \E n \in TagArgs : Handled(MoveToTag(Entry, TagMaskOfArg(n)))
PressMove == \E dir \in Direction : Handled(Move(Entry, dir))
PressFocus == \E dir \in Direction : Handled(Focus(Entry, dir))

\* Spec: one monitor that is announced once, the windows 1..MaxWindows, no
\* input method.
Next ==
    \/ HeadsDone(OneMonitor, {Mode1080})
    \/ WindowEvent(WinIds)
    \/ AppIdEvent(WinIds, {"kitty"})
    \/ ClosedEvent(WinIds)
    \/ ManageStartEvent
    \/ PressToggleFloat
    \/ PressSwitchFocusFloat
    \/ PressFocusTag
    \/ PressMoveToTag
    \/ PressMove
    \/ PressFocus

Spec == Init /\ [][Next]_vars

\* SpecOutputs: two monitors, the windows 1..MaxOutputWindows, none of them
\* toggled to floating.
NextOutputs ==
    \/ HeadsDone(Monitors, {Mode1080})
    \/ OutputDone
    \/ WindowEvent(OutputWinIds)
    \/ AppIdEvent(OutputWinIds, AppIds)
    \/ ClosedEvent(OutputWinIds)
    \/ PointerPositionEvent
    \/ WindowInteractionEvent(OutputWinIds)
    \/ ManageStartEvent
    \/ PressFocusOutput
    \/ PressMoveToOutput
    \/ PressFocusTag
    \/ PressMoveToTag
    \/ PressMove
    \/ PressFocus

SpecOutputs == Init /\ [][NextOutputs]_vars

\* SpecMove: two monitors and the windows 1..MaxWindows, which are pushed
\* from one monitor to the other.
NextMove ==
    \/ HeadsDone(Monitors, {Mode1080})
    \/ WindowEvent(WinIds)
    \/ AppIdEvent(WinIds, {"kitty"})
    \/ ManageStartEvent
    \/ PressFocusOutput
    \/ PressMoveToOutput

SpecMove == Init /\ [][NextMove]_vars

\* SpecFloat: one monitor with 1000 x 1000 usable and the windows 1..MaxFloatWindows,
\* which are toggled between tiled and floating.
MaxFloatWindows == 3

FloatWinIds == 1..MaxFloatWindows
Area1000 == Geometry(0, 0, 1000, 1000)

\* LayerOutEvent::NonExclusiveArea reporting that all of a 1000 x 1000
\* monitor is usable, before the first window opens.
FloatAreaEvent ==
    \E name \in DOMAIN outputs :
        /\ windows = <<>>
        /\ outputs[name].usable_area # Area1000
        /\ NonExclusiveAreaMatches(Entry, name, Area1000)
        /\ Handled(NonExclusiveAreaOn(Entry, name, Area1000))

NextFloat ==
    \/ HeadsDone(OneMonitor, {Mode1080})
    \/ FloatAreaEvent
    \/ WindowEvent(FloatWinIds)
    \/ AppIdEvent(FloatWinIds, {"kitty"})
    \/ WindowInteractionEvent(FloatWinIds)
    \/ ManageStartEvent
    \/ PressToggleFloat

SpecFloat == Init /\ [][NextFloat]_vars

\* SpecArea: the rectangles of two monitors. A head reports either mode as
\* its current one, the configuration file is re-read with or without a table
\* for M1, and the bar of a monitor reserves BarHeight rows at its top or
\* nothing.
BarHeight == 30

OutputConfigs ==
    {[mode |-> mode, scale |-> scale, transform |-> transform,
      position |-> NoPos, focus_at_startup |-> FALSE] :
        mode \in AllModes \cup {NoMode}, scale \in {1, 2},
        transform \in {"normal", "90"}}

\* What Config::load() can return.
Configs == {DefaultConfig} \cup {[output |-> MapPut(EmptyMap, "M1", c)] : c \in OutputConfigs}

\* Action::ReloadConfiguration
ReloadConfiguration(s, loaded) == [s EXCEPT !.config = loaded]

\* The binding of ReloadConfiguration is pressed: perform_action, then
\* apply_output_configs.
PressReloadConfiguration ==
    \E loaded \in Configs :
        /\ Len(heads) > 0
        /\ Handled(apply_output_configs(ReloadConfiguration(Entry, loaded)))

\* The layer shell of a configured monitor reports the area its bar leaves
\* free; the handler gives it to the first monitor of its iteration that
\* holds the centre, or to none.
NonExclusiveAreaEvent ==
    \E name \in HeadNames, bar \in {0, BarHeight}, matched \in DOMAIN outputs \cup {NoOut} :
        LET real == RealArea(Entry, name)
            area == Geometry(real.x, real.y + bar, real.w, real.h - bar)
        IN  /\ outputs[name].full_area.w > 0
            /\ IF matched = NoOut
               THEN /\ \A m \in DOMAIN outputs : ~NonExclusiveAreaMatches(Entry, m, area)
                    /\ Handled(Entry)
               ELSE /\ NonExclusiveAreaMatches(Entry, matched, area)
                    /\ Handled(NonExclusiveAreaOn(Entry, matched, area))

NextArea ==
    \/ HeadsDone(Monitors, AllModes)
    \/ OutputDone
    \/ PressReloadConfiguration
    \/ NonExclusiveAreaEvent
    \/ ManageStartEvent

SpecArea == Init /\ [][NextArea]_vars

\* SpecBar: bar reservations that may arrive before the output manager has
\* announced the monitors. Two monitors; `probe` remembers the reservation
\* the handler matched with no monitor.

\* The free areas a layer shell output reports: the slots of the two
\* monitors, with BarHeight rows at the top reserved or nothing.
BarAreas ==
    {Geometry(x, bar, Mode1080.w, Mode1080.h - bar) : x \in {0, Mode1080.w},
                                                       bar \in {0, BarHeight}}

\* LayerOutEvent::NonExclusiveArea for a rectangle of BarAreas.
BarReservationEvent ==
    \E area \in BarAreas, matched \in DOMAIN outputs \cup {NoOut} :
        /\ events_in_sequence < MaxBatch
        /\ events_in_sequence' = events_in_sequence + 1
        /\ IF matched = NoOut
           THEN /\ \A m \in DOMAIN outputs : ~NonExclusiveAreaMatches(Entry, m, area)
                /\ Apply(Entry)
                /\ probe' = [op |-> "unmatched", area |-> area]
           ELSE /\ NonExclusiveAreaMatches(Entry, matched, area)
                /\ Apply(NonExclusiveAreaOn(Entry, matched, area))
                /\ probe' = IF /\ probe.op = "unmatched"
                               /\ NonExclusiveAreaMatches(Entry, matched, probe.area)
                            THEN NoProbe ELSE probe
        /\ UNCHANGED <<active_river_outputs, window_data, requests, mismatch_run,
                       BindingVars, IpcVars>>

NextBar ==
    \/ HeadsDone(Monitors, {Mode1080})
    \/ OutputDone
    \/ BarReservationEvent
    \/ ManageStartEvent

SpecBar == Init /\ [][NextBar]_vars

\* SpecNeighbor: the directional neighbour search with two monitors that
\* view different tags, the windows 1..MaxWindows.
NextNeighbor ==
    \/ HeadsDone(Monitors, {Mode1080})
    \/ WindowEvent(WinIds)
    \/ AppIdEvent(WinIds, {"kitty"})
    \/ PointerPositionEvent
    \/ ManageStartEvent
    \/ PressFocusTag
    \/ PressFocus

SpecNeighbor == Init /\ [][NextNeighbor]_vars

\* SpecCycle: the tag wrap of Focus(Left / Right) on one monitor with the
\* windows 1..MaxOutputWindows, where "focus N" reaches the tags of index
\* 0..MaxCycleTagIdx, also those beyond the wrap bound.
MaxCycleTagIdx == 2

\* An event other than ManageStart is handled and leaves the state s.
CycleHandled(s) ==
    /\ events_in_sequence < MaxBatch
    /\ events_in_sequence' = events_in_sequence + 1
    /\ \A m \in DOMAIN s.outputs : s.outputs[m].tags < 2 ^ (MaxCycleTagIdx + 1)
    /\ \A i \in 1..Len(s.windows) : s.windows[i].tags < 2 ^ (MaxCycleTagIdx + 1)
    /\ s.focused_tags < 2 ^ (MaxCycleTagIdx + 1)
    /\ TreesInBound(s)
    /\ Assign(s)
    /\ UNCHANGED <<probe, active_river_outputs, window_data, requests, mismatch_run,
                   BindingVars, IpcVars>>

CycleWindowEvent ==
    \E id \in OutputWinIds :
        /\ ~Referenced(id)
        /\ CycleHandled(WindowCreated(Entry, id))

CycleAppIdEvent ==
    \E id \in OutputWinIds,
       any_output \in (IF outputs = EmptyMap THEN {NoOut} ELSE DOMAIN outputs) :
        /\ HasWin(windows, id)
        /\ CycleHandled(AppId(Entry, id, "kitty", any_output))

CycleManageStart ==
    \E ord \in OutputOrders(Entry) :
        /\ events_in_sequence' = 0
        /\ Assign(ManageStart(State, ord))
        /\ UNCHANGED <<probe, active_river_outputs, window_data, requests, mismatch_run,
                       BindingVars, IpcVars>>

CyclePressFocusTag ==
    \E n \in 1..(MaxCycleTagIdx + 1) : CycleHandled(FocusTag(Entry, TagMaskOfArg(n)))

CyclePressFocus == \E dir \in {"Left", "Right"} : CycleHandled(Focus(Entry, dir))

NextCycle ==
    \/ HeadsDone(OneMonitor, {Mode1080})
    \/ CycleWindowEvent
    \/ CycleAppIdEvent
    \/ CycleManageStart
    \/ CyclePressFocusTag
    \/ CyclePressFocus

SpecCycle == Init /\ [][NextCycle]_vars

\* SpecTree: swap_windows and insert_at / remove_at applied to every tree of
\* up to MaxProbeLeaves leaves.
RECURSIVE TreesOf(_)
TreesOf(n) ==
    IF n = 1 THEN {Window(id) : id \in 1..MaxTreeIds}
    ELSE UNION {{Container(split, Half, l, r) :
                    split \in SplitType, l \in TreesOf(k), r \in TreesOf(n - k)} :
                k \in 1..(n - 1)}

ProbeTrees == UNION {TreesOf(n) : n \in 1..MaxProbeLeaves}

InitTree ==
    /\ Constructed
    /\ probe \in {[op |-> "input", tree |-> tree, id1 |-> id1, id2 |-> id2] :
                     tree \in ProbeTrees, id1 \in 1..MaxTreeIds, id2 \in 1..MaxTreeIds}

AppStateVars ==
    <<windows, outputs, heads, layout_roots, tag_focus_history, last_geometry,
      focused_window, focused_output, focused_tags, restrict_focus_to_tiling,
      pending_focus_dir, pending_pointer_warp, config, events_in_sequence,
      wrap_landing, active_river_outputs, window_data, requests, mismatch_run,
      key_bindings, needs_reload, destroyed,
      ipc_clients, last_sent_json, ipc_backlog, broadcast_log>>

\* swap_windows(tree, id1, id2), and the same call again on its result.
ProbeSwap ==
    /\ probe.op = "input"
    /\ LET once == swap_windows(probe.tree, probe.id1, probe.id2) IN
       probe' = [op |-> "swap_windows", tree |-> probe.tree,
                 id1 |-> probe.id1, id2 |-> probe.id2,
                 once |-> once,
                 twice |-> swap_windows(once, probe.id1, probe.id2)]
    /\ UNCHANGED AppStateVars

\* insert_at(tree, id1, id2, split) for a leaf id1, then remove_at(_, id2).
ProbeInsertRemove ==
    /\ probe.op = "input"
    /\ tree_contains(probe.tree, probe.id1)
    /\ \E split \in SplitType :
           LET inserted == insert_at(probe.tree, probe.id1, probe.id2, split).node IN
           probe' = [op |-> "insert_remove", tree |-> probe.tree,
                     id1 |-> probe.id1, id2 |-> probe.id2, split |-> split,
                     inserted |-> inserted,
                     removed |-> remove_at(inserted, probe.id2)]
    /\ UNCHANGED AppStateVars

\* insert_at(tree, id1, id2, split): the returned bool and the tree after it.
ProbeInsert ==
    /\ probe.op = "input"
    /\ \E split \in SplitType :
           LET r == insert_at(probe.tree, probe.id1, probe.id2, split) IN
           probe' = [op |-> "insert_at", tree |-> probe.tree,
                     id1 |-> probe.id1, id2 |-> probe.id2, split |-> split,
                     found |-> r.found, node |-> r.node]
    /\ UNCHANGED AppStateVars

\* remove_at(tree, id1)
ProbeRemove ==
    /\ probe.op = "input"
    /\ probe' = [op |-> "remove_at", tree |-> probe.tree, id1 |-> probe.id1,
                 removed |-> remove_at(probe.tree, probe.id1)]
    /\ UNCHANGED AppStateVars

\* The rectangles the trees are rendered into.
ProbeAreas == {Geometry(0, 0, 1920, 1080), Geometry(10, 30, 5, 3), Geometry(-7, 4, 1, 1)}

\* find_edge_in_tree(tree, dir), and calculate_layout(tree, area).
ProbeEdge ==
    /\ probe.op = "input"
    /\ \E dir \in Direction, area \in ProbeAreas :
           probe' = [op |-> "find_edge", tree |-> probe.tree, dir |-> dir, area |-> area,
                     edge |-> find_edge_in_tree(probe.tree, dir),
                     results |-> calculate_layout(probe.tree, area)]
    /\ UNCHANGED AppStateVars

NextTree ==
    \/ ProbeSwap
    \/ ProbeInsertRemove
    \/ ProbeInsert
    \/ ProbeRemove
    \/ ProbeEdge

SpecTree == InitTree /\ [][NextTree]_vars

---------------------------------------------------------------------------
\* SpecProtocol: the requests of the manage and render sequences. One monitor,
\* the windows 1..MaxWindows; windows are made fullscreen and floating.

Req(req, win) == [req |-> req, win |-> win]
Sent(run, seq) == [run |-> run, seq |-> seq]

\* WindowData as WmEvent::Window creates it.
NewWindowData ==
    [node |-> FALSE, layout_retry_count |-> 0, last_proposed_w |-> 0, last_proposed_h |-> 0]

DataOf(data, id) == IF id \in DOMAIN data THEN data[id] ELSE NewWindowData

\* Action::ToggleFullscreen
ToggleFullscreen(s) ==
    IF s.focused_window # NoWin /\ HasWin(s.windows, s.focused_window)
    THEN [s EXCEPT !.windows[WinIndex(s.windows, s.focused_window)].is_fullscreen = ~@]
    ELSE s

\* ManageStart, the loop that materializes is_fullscreen, from window i on.
\* acc = [data, seq]: window_data and the requests sent so far.
RECURSIVE fullscreen_sync(_, _, _, _)
fullscreen_sync(s, river_outputs, acc, i) ==
    IF i > Len(s.windows) THEN acc
    ELSE
        LET w == s.windows[i]
            target_found ==
                /\ w.output # NoOut
                /\ w.output \in DOMAIN s.outputs
                /\ \E k \in 1..Len(river_outputs) :
                       /\ river_outputs[k].x = s.outputs[w.output].full_area.x
                       /\ river_outputs[k].y = s.outputs[w.output].full_area.y
            reset == [DataOf(acc.data, w.id) EXCEPT
                         !.last_proposed_w = 0, !.last_proposed_h = 0]
        IN  fullscreen_sync(
                s, river_outputs,
                IF w.is_fullscreen
                THEN IF target_found
                     THEN [data |-> MapPut(acc.data, w.id, reset),
                           seq |-> acc.seq \o <<Req("fullscreen", w.id),
                                                Req("inform_fullscreen", w.id)>>]
                     ELSE acc
                ELSE [data |-> MapPut(acc.data, w.id, reset),
                      seq |-> acc.seq \o <<Req("exit_fullscreen", w.id),
                                           Req("inform_not_fullscreen", w.id)>>],
                i + 1)

\* A variant of the visibility pass that compares with focused_tags.
RECURSIVE show_or_hide_by_focused_tags(_, _, _)
show_or_hide_by_focused_tags(s, seq, i) ==
    IF i > Len(s.windows) THEN seq
    ELSE
        LET w == s.windows[i]
            is_visible == BitAnd(w.tags, s.focused_tags) # 0
        IN  show_or_hide_by_focused_tags(
                s,
                IF w.app_id = NoAppId \/ contains_fcitx(w.app_id) THEN seq
                ELSE seq \o <<Req(IF is_visible THEN "show" ELSE "hide", w.id)>>,
                i + 1)

\* ManageStart, the show / hide loop from window i on.
RECURSIVE show_or_hide(_, _, _)
show_or_hide(s, seq, i) ==
    IF i > Len(s.windows) THEN seq
    ELSE
        LET w == s.windows[i]
            is_visible ==
                /\ w.output # NoOut
                /\ w.output \in DOMAIN s.outputs
                /\ BitAnd(w.tags, s.outputs[w.output].tags) # 0
        IN  show_or_hide(
                s,
                IF w.app_id = NoAppId \/ contains_fcitx(w.app_id) THEN seq
                ELSE seq \o <<Req(IF is_visible THEN "show" ELSE "hide", w.id)>>,
                i + 1)

\* ManageStart, the sizing of the leaves `results` of one tree (no gaps and
\* no border are configured).
RECURSIVE size_tiled(_, _, _)
size_tiled(s, acc, results) ==
    IF results = <<>> THEN acc
    ELSE
        LET id == Head(results)[1]
            geom == Head(results)[2]
            final_w == Max(geom.w, 1)
            final_h == Max(geom.h, 1)
            old == DataOf(acc.data, id)
            proposes ==
                \/ old.last_proposed_w # final_w
                \/ old.last_proposed_h # final_h
                \/ old.layout_retry_count > 0
        IN  size_tiled(
                s,
                IF ~HasWin(s.windows, id) THEN acc
                ELSE [data |->
                          IF proposes
                          THEN MapPut(acc.data, id,
                                      [old EXCEPT !.last_proposed_w = final_w,
                                                  !.last_proposed_h = final_h])
                          ELSE acc.data,
                      seq |-> acc.seq \o <<Req("set_borders", id)>>
                              \o (IF proposes THEN <<Req("propose_dimensions", id)>>
                                  ELSE <<>>)
                              \o <<Req("set_tiled", id)>>],
                Tail(results))

\* ManageStart, the sizing pass over the monitors in the order `ord`.
RECURSIVE size_outputs(_, _, _)
size_outputs(s, acc, ord) ==
    IF ord = <<>> THEN acc
    ELSE
        LET out_data == s.outputs[Head(ord)]
            tree_key == <<Head(ord), out_data.tags>>
        IN  size_outputs(
                s,
                IF tree_key \in DOMAIN s.layout_roots
                THEN size_tiled(s, acc, calculate_layout(s.layout_roots[tree_key],
                                                         out_data.usable_area))
                ELSE acc,
                Tail(ord))

\* ManageStart, the sizing of the floating windows from window i on.
RECURSIVE size_floats(_, _, _)
size_floats(s, acc, i) ==
    IF i > Len(s.windows) THEN acc
    ELSE
        LET w == s.windows[i]
            old == DataOf(acc.data, w.id)
            proposes ==
                \/ old.last_proposed_w # w.float_geo.w
                \/ old.last_proposed_h # w.float_geo.h
        IN  size_floats(
                s,
                IF ~(w.is_floating /\ ~w.is_fullscreen) THEN acc
                ELSE [data |->
                          IF proposes
                          THEN MapPut(acc.data, w.id,
                                      [old EXCEPT !.last_proposed_w = w.float_geo.w,
                                                  !.last_proposed_h = w.float_geo.h])
                          ELSE acc.data,
                      seq |-> acc.seq
                              \o (IF proposes THEN <<Req("propose_dimensions", w.id)>>
                                  ELSE <<>>)
                              \o <<Req("set_borders", w.id), Req("set_tiled", w.id)>>],
                i + 1)

\* ManageStart, the focus confirmation: the request the seat gets for the
\* focused window (the seat is bound before the first window appears).
focus_request(s, data) ==
    IF /\ s.focused_window # NoWin
       /\ HasWin(s.windows, s.focused_window)
       /\ BitAnd(Win(s.windows, s.focused_window).tags, s.focused_tags) # 0
    THEN LET retries == DataOf(data, s.focused_window).layout_retry_count IN
         IF retries > 0 /\ retries % 2 # 0
         THEN <<Req("clear_focus", NoWin)>>
         ELSE <<Req("focus_window", s.focused_window)>>
    ELSE <<>>

\* A variant of manage_start_requests that returns before manage_finish when
\* no window is floating.
manage_start_requests_returns_early(s, data, river_outputs, ord, bindings) ==
    LET synced == fullscreen_sync(s, river_outputs, [data |-> data, seq |-> <<>>], 1)
        shown == [synced EXCEPT !.seq = show_or_hide(s, @, 1)]
        focused == [shown EXCEPT !.seq = @ \o focus_request(s, shown.data)]
        tiled == size_outputs(s, focused, ord)
        floated == size_floats(s, tiled, 1)
    IN  IF \E i \in 1..Len(s.windows) : s.windows[i].is_floating
        THEN [floated EXCEPT !.seq = @ \o <<Req("manage_finish", NoWin)>>]
        ELSE tiled

\* The requests of WmEvent::ManageStart, sent while AppState becomes s, and
\* window_data as they leave it.
manage_start_requests(s, data, river_outputs, ord, bindings) ==
    LET synced == fullscreen_sync(s, river_outputs, [data |-> data, seq |-> <<>>], 1)
        shown == [synced EXCEPT !.seq = show_or_hide(s, @, 1)]
        focused == [shown EXCEPT !.seq = @ \o focus_request(s, shown.data)]
        tiled == size_outputs(s, focused, ord)
        floated == size_floats(s, tiled, 1)
        enabled == [k \in 1..Len(bindings) |-> Req("enable", bindings[k].obj)]
    IN  [floated EXCEPT !.seq = @ \o enabled \o <<Req("manage_finish", NoWin)>>]

\* RenderStart, the positions of the leaves `results` of one tree.
RECURSIVE place_tiled(_, _, _)
place_tiled(s, acc, results) ==
    IF results = <<>> THEN acc
    ELSE
        LET id == Head(results)[1] IN
        place_tiled(
            s,
            IF ~HasWin(s.windows, id) THEN acc
            ELSE [data |-> MapPut(acc.data, id, [DataOf(acc.data, id) EXCEPT !.node = TRUE]),
                  seq |-> acc.seq \o <<Req("set_position", id)>>
                          \o (IF s.focused_window = id THEN <<Req("place_top", id)>>
                              ELSE <<>>)],
            Tail(results))

RECURSIVE place_outputs(_, _, _)
place_outputs(s, acc, ord) ==
    IF ord = <<>> THEN acc
    ELSE
        LET out_data == s.outputs[Head(ord)]
            tree_key == <<Head(ord), out_data.tags>>
        IN  place_outputs(
                s,
                IF tree_key \in DOMAIN s.layout_roots
                THEN place_tiled(s, acc, calculate_layout(s.layout_roots[tree_key],
                                                          out_data.usable_area))
                ELSE acc,
                Tail(ord))

\* RenderStart, the floating layer from window i on.
RECURSIVE place_floats(_, _, _)
place_floats(s, acc, i) ==
    IF i > Len(s.windows) THEN acc
    ELSE
        LET w == s.windows[i] IN
        place_floats(
            s,
            IF ~(w.is_floating /\ ~w.is_fullscreen) THEN acc
            ELSE [data |-> MapPut(acc.data, w.id, [DataOf(acc.data, w.id) EXCEPT !.node = TRUE]),
                  seq |-> acc.seq \o <<Req("set_position", w.id), Req("place_top", w.id)>>],
            i + 1)

\* The requests of WmEvent::RenderStart and window_data as they leave it.
render_start_requests(s, data, ord) ==
    LET tiled == place_outputs(s, [data |-> data, seq |-> <<>>], ord)
        floated == place_floats(s, tiled, 1)
        on_top ==
            IF /\ s.focused_window # NoWin
               /\ HasWin(s.windows, s.focused_window)
               /\ DataOf(floated.data, s.focused_window).node
            THEN <<Req("place_top", s.focused_window)>> ELSE <<>>
    IN  [floated EXCEPT !.seq = @ \o on_top \o <<Req("render_finish", NoWin)>>]

\* get_active_window_title
get_active_window_title(s) ==
    IF s.focused_window # NoWin /\ HasWin(s.windows, s.focused_window)
    THEN (IF Win(s.windows, s.focused_window).app_id # NoAppId
          THEN Win(s.windows, s.focused_window).app_id ELSE "Unknown")
    ELSE ""

\* get_waybar_response_json without [waybar] and [window.rule] tables: the
\* text lists the tags 1 .. visual_bound + 1, the tooltip names the focus.
get_waybar_response_json(s) ==
    LET occupied == get_occupied_tags(s)
        max_occupied_idx == IF occupied = 0 THEN 0 ELSE highest_bit(occupied)
        focused_idx == IF s.focused_tags = 0 THEN 0 ELSE highest_bit(s.focused_tags)
        visual_bound == Min(Max(max_occupied_idx, focused_idx) + 1, 31)
    IN  [text |-> [i \in 1..(visual_bound + 1) |-> i],
         tooltip |-> get_active_window_title(s)]

\* handle_ipc_connections: every waiting connection is accepted, written the
\* status and pushed to the clients. [clients, written]
handle_ipc_connections(s, clients, backlog) ==
    LET accepted == [k \in 1..backlog |-> Len(clients) + k] IN
    [clients |-> clients \o accepted,
     written |-> [k \in 1..backlog |->
                    [client |-> accepted[k], json |-> get_waybar_response_json(s)]]]

\* broadcast_status: [last, written], last_sent_json and the packets written.
broadcast_status(s, clients, last) ==
    LET json_content == get_waybar_response_json(s) IN
    IF clients = <<>> THEN [last |-> last, written |-> <<>>]
    ELSE IF json_content = last THEN [last |-> last, written |-> <<>>]
    ELSE [last |-> json_content,
          written |-> [k \in 1..Len(clients) |-> [client |-> clients[k], json |-> json_content]]]

\* An event other than ManageStart and RenderStart is handled, leaves the
\* AppState s and sends the requests seq.
RanSending(s, seq) ==
    /\ events_in_sequence < MaxBatch
    /\ events_in_sequence' = events_in_sequence + 1
    /\ Apply(s)
    /\ requests' = Sent("event", seq)
    /\ UNCHANGED <<probe, active_river_outputs, window_data, mismatch_run, BindingVars,
                   IpcVars>>

\* The handler of an event that sends no request.
Ran(s) == RanSending(s, <<>>)

\* WinEvent::AppId, the request it sends to the seat: focus_window when the
\* window is tiled by this event.
AppIdRequests(s, id, app_id, any_output) ==
    LET after == AppId(s, id, app_id, any_output)
        tiled_now ==
            /\ HasWin(s.windows, id)
            /\ app_id # NoAppId /\ ~contains_fcitx(app_id)
            /\ Win(after.windows, id).output # NoOut
            /\ ~\E k \in DOMAIN s.layout_roots : tree_contains(s.layout_roots[k], id)
    IN  IF tiled_now THEN <<Req("focus_window", id)>> ELSE <<>>

ProtocolHeadsDone ==
    \E names \in NewHeadBatches(OneMonitor) :
        Ran(apply_output_configs(heads_announced(Entry, names, Mode1080)))

\* WmEvent::Output
RiverOutputEvent ==
    /\ Len(active_river_outputs) < Cardinality(OneMonitor)
    /\ events_in_sequence < MaxBatch
    /\ events_in_sequence' = events_in_sequence + 1
    /\ Apply(Entry)
    /\ active_river_outputs' = Append(active_river_outputs, [x |-> 0, y |-> 0])
    /\ requests' = Sent("event", <<>>)
    /\ UNCHANGED <<probe, window_data, mismatch_run, BindingVars, IpcVars>>

ProtocolWindowEvent(ids) ==
    \E id \in ids :
        /\ ~Referenced(id)
        /\ Ran(WindowCreated(Entry, id))

ProtocolAppIdEvent(ids) ==
    \E id \in ids,
       any_output \in (IF outputs = EmptyMap THEN {NoOut} ELSE DOMAIN outputs) :
        /\ HasWin(windows, id)
        /\ RanSending(AppId(Entry, id, "kitty", any_output),
                      AppIdRequests(Entry, id, "kitty", any_output))

ProtocolToggleFullscreen == Ran(ToggleFullscreen(Entry))
ProtocolToggleFloat == Ran(ToggleFloat(Entry))

ManageStartRun ==
    \E ord \in OutputOrders(Entry) :
        LET connected == handle_ipc_connections(State, ipc_clients, ipc_backlog)
            broadcast == broadcast_status(State, connected.clients, last_sent_json)
            s == ManageStart(State, ord)
            sent == manage_start_requests(s, window_data, active_river_outputs, ord,
                                          key_bindings)
        IN  /\ events_in_sequence' = 0
            /\ Apply(s)
            /\ window_data' = sent.data
            /\ requests' = Sent("manage_start", sent.seq)
            /\ ipc_clients' = connected.clients
            /\ ipc_backlog' = 0
            /\ last_sent_json' = broadcast.last
            /\ broadcast_log' = [rendered |-> get_waybar_response_json(State),
                                 written |-> connected.written \o broadcast.written]
            /\ UNCHANGED <<probe, active_river_outputs, mismatch_run, BindingVars>>

\* WmEvent::RenderStart, which the compositor sends after a manage sequence.
RenderStartRun ==
    \E ord \in OutputOrders(Entry) :
        LET sent == render_start_requests(State, window_data, ord) IN
        /\ requests.run = "manage_start"
        /\ Apply(State)
        /\ window_data' = sent.data
        /\ requests' = Sent("render_start", sent.seq)
        /\ UNCHANGED <<probe, active_river_outputs, events_in_sequence, mismatch_run,
                       BindingVars, IpcVars>>

NextProtocol ==
    \/ ProtocolHeadsDone
    \/ RiverOutputEvent
    \/ ProtocolWindowEvent(WinIds)
    \/ ProtocolAppIdEvent(WinIds)
    \/ ProtocolToggleFullscreen
    \/ ProtocolToggleFloat
    \/ ManageStartRun
    \/ RenderStartRun

SpecProtocol == Init /\ [][NextProtocol]_vars

---------------------------------------------------------------------------
\* SpecSizing: the dimensions a window reports against the ones proposed.
\* One monitor, the windows 1..MaxOutputWindows.

\* `layout_retry_count < 50` and `dw > 2 || dh > 2`
RetryLimit == 50
SizeTolerance == 2

\* A variant of Dimensions that never gives a window up.
Dimensions_never_surrenders(s, data, id, width, height) ==
    LET unchanged == [s |-> s, data |-> data, manage_dirty |-> FALSE, warned |-> FALSE] IN
    IF ~HasWin(s.windows, id) THEN unchanged
    ELSE
        LET w_idx == WinIndex(s.windows, id)
            w == s.windows[w_idx]
            old == DataOf(data, id)
        IN  IF w.is_fullscreen THEN unchanged
            ELSE IF w.is_floating
            THEN [unchanged EXCEPT !.s = [s EXCEPT !.windows[w_idx].float_geo.w = width,
                                                   !.windows[w_idx].float_geo.h = height]]
            ELSE IF id \notin DOMAIN s.last_geometry THEN unchanged
            ELSE IF \/ Abs(width - s.last_geometry[id].w) > SizeTolerance
                    \/ Abs(height - s.last_geometry[id].h) > SizeTolerance
            THEN [unchanged EXCEPT
                     !.data = MapPut(data, id,
                                     [old EXCEPT !.layout_retry_count =
                                                     Min(@ + 1, RetryLimit)]),
                     !.manage_dirty = TRUE]
            ELSE [unchanged EXCEPT
                     !.data = MapPut(data, id, [old EXCEPT !.layout_retry_count = 0])]

\* WinEvent::Dimensions: [s, data, manage_dirty, warned], the AppState and
\* window_data it leaves, whether it requested manage_dirty and whether it
\* logged the surrender warning.
Dimensions(s, data, id, width, height) ==
    LET unchanged == [s |-> s, data |-> data, manage_dirty |-> FALSE, warned |-> FALSE] IN
    IF ~HasWin(s.windows, id) THEN unchanged
    ELSE
        LET w_idx == WinIndex(s.windows, id)
            w == s.windows[w_idx]
            old == DataOf(data, id)
        IN  IF w.is_fullscreen THEN unchanged
            ELSE IF w.is_floating
            THEN [unchanged EXCEPT !.s = [s EXCEPT !.windows[w_idx].float_geo.w = width,
                                                   !.windows[w_idx].float_geo.h = height]]
            ELSE IF id \notin DOMAIN s.last_geometry THEN unchanged
            ELSE IF \/ Abs(width - s.last_geometry[id].w) > SizeTolerance
                    \/ Abs(height - s.last_geometry[id].h) > SizeTolerance
            THEN IF old.layout_retry_count < RetryLimit
                 THEN [unchanged EXCEPT
                          !.data = MapPut(data, id,
                                          [old EXCEPT !.layout_retry_count = @ + 1]),
                          !.manage_dirty = TRUE]
                 ELSE IF old.layout_retry_count = RetryLimit
                 THEN [unchanged EXCEPT
                          !.data = MapPut(data, id,
                                          [old EXCEPT !.layout_retry_count = @ + 1]),
                          !.warned = TRUE]
                 ELSE unchanged
            ELSE [unchanged EXCEPT
                     !.data = MapPut(data, id, [old EXCEPT !.layout_retry_count = 0])]

\* Runs of mismatching reports are followed up to MaxReports reports.
MaxReports == 52

\* What a window reports: the size it was given, or one that is off by the
\* offsets.
ReportOffsets == {<<0, 0>>, <<2, -2>>, <<3, 0>>, <<0, -3>>}

\* The size the window was last asked to take.
AskedSize(s, id) ==
    IF id \in DOMAIN s.last_geometry THEN s.last_geometry[id]
    ELSE Geometry(0, 0, Mode1080.w, Mode1080.h)

\* The report is one of a tiled, non-fullscreen window that was laid out.
TiledReport(id) ==
    /\ HasWin(windows, id)
    /\ ~Win(windows, id).is_floating
    /\ ~Win(windows, id).is_fullscreen
    /\ id \in DOMAIN last_geometry

DimensionsEvent ==
    \E id \in OutputWinIds, off \in ReportOffsets :
        LET asked == AskedSize(Entry, id)
            r == Dimensions(Entry, window_data, id, asked.w + off[1], asked.h + off[2])
            mismatch == Abs(off[1]) > 2 \/ Abs(off[2]) > 2
        IN  /\ HasWin(windows, id)
            /\ (TiledReport(id) /\ mismatch) => RunOf(mismatch_run, id).reports < MaxReports
            /\ events_in_sequence < MaxBatch
            /\ events_in_sequence' = events_in_sequence + 1
            /\ Apply(r.s)
            /\ window_data' = r.data
            /\ requests' = Sent("event", <<>>)
            /\ mismatch_run' =
                   IF ~TiledReport(id) THEN mismatch_run
                   ELSE IF mismatch
                   THEN LET run == RunOf(mismatch_run, id) IN
                        MapPut(mismatch_run, id,
                               [reports |-> run.reports + 1,
                                dirty |-> run.dirty + (IF r.manage_dirty THEN 1 ELSE 0),
                                warned |-> run.warned + (IF r.warned THEN 1 ELSE 0)])
                   ELSE MapDel(mismatch_run, id)
            /\ UNCHANGED <<probe, active_river_outputs, BindingVars, IpcVars>>

NextSizing ==
    \/ ProtocolHeadsDone
    \/ ProtocolWindowEvent(OutputWinIds)
    \/ ProtocolAppIdEvent(OutputWinIds)
    \/ ProtocolToggleFullscreen
    \/ ProtocolToggleFloat
    \/ ManageStartRun
    \/ DimensionsEvent

SpecSizing == Init /\ [][NextSizing]_vars

---------------------------------------------------------------------------
\* SpecReload: key bindings and the hot reload of the configuration. One
\* monitor, the windows 1..MaxOutputWindows.

\* config.keybindings is Some: the file has a [keybindings] table.
HasKeybindings(cfg) == "keybindings" \in DOMAIN cfg

KeyEntry(key, actions) == [key |-> key, actions |-> actions]

\* get_default_bindings
DefaultBindings ==
    << KeyEntry("n", <<"FocusLeft">>), KeyEntry("i", <<"FocusRight">>),
       KeyEntry("u", <<"FocusUp">>), KeyEntry("e", <<"FocusDown">>),
       KeyEntry("q", <<"CloseFocused">>), KeyEntry("Return", <<"Spawn">>) >>

\* The [keybindings] tables of the configuration files: single actions, an
\* action list and a key name xkb does not know.
KeyTables ==
    { {KeyEntry("r", <<"ReloadConfiguration">>), KeyEntry("f", <<"ToggleFloat">>)},
      {KeyEntry("r", <<"ToggleFloat", "ReloadConfiguration">>),
       KeyEntry("NoSuchKey", <<"ToggleFloat">>)} }

\* What Config::load() can return when the bindings are reloaded.
ReloadConfigs ==
    {DefaultConfig} \cup {[output |-> EmptyMap, keybindings |-> table] : table \in KeyTables}

\* The configuration file: absent, not valid TOML, or holding a configuration.
ConfigFiles ==
    {[kind |-> "missing"], [kind |-> "unparsable"]}
    \cup {[kind |-> "parsed", config |-> cfg] : cfg \in ReloadConfigs}

\* Config::load
load(file) ==
    IF file.kind = "parsed" THEN file.config
    ELSE [output |-> EmptyMap]

\* The entries setup_keybindings walks through: the default vector, or the
\* table in an order of its HashMap.
EntryOrders(cfg) ==
    IF ~HasKeybindings(cfg) THEN {DefaultBindings}
    ELSE LET table == cfg.keybindings
             n == Cardinality(table)
         IN  {ord \in [1..n -> table] : \A i, j \in 1..n : i # j => ord[i] # ord[j]}

\* A variant of KnownKey: every key name has a keysym.
KnownKey_any(key) == key = key

\* commit_binding finds the keysym of the key name.
KnownKey(key) == key # "NoSuchKey"

\* setup_keybindings: a binding object is created for every entry with a
\* known key and pushed to `bindings`; `fresh` is the next object.
RECURSIVE setup_keybindings(_, _, _)
setup_keybindings(bindings, entries, fresh) ==
    IF entries = <<>> THEN bindings
    ELSE setup_keybindings(
             IF KnownKey(Head(entries).key)
             THEN Append(bindings, [obj |-> fresh, key |-> Head(entries).key,
                                    actions |-> Head(entries).actions])
             ELSE bindings,
             Tail(entries),
             IF KnownKey(Head(entries).key) THEN fresh + 1 ELSE fresh)

\* The binding objects created so far.
BindingObjects == destroyed \cup {key_bindings[k].obj : k \in 1..Len(key_bindings)}

\* Hot reloads are followed until MaxDestroyed binding objects were destroyed.
MaxDestroyed == 6

\* WmEvent::Seat, for the first seat.
SeatEvent ==
    \E entries \in EntryOrders(config) :
        /\ BindingObjects = {}
        /\ events_in_sequence < MaxBatch
        /\ events_in_sequence' = events_in_sequence + 1
        /\ Apply(Entry)
        /\ key_bindings' = setup_keybindings(key_bindings, entries, 1)
        /\ requests' = Sent("event", <<>>)
        /\ UNCHANGED <<probe, active_river_outputs, window_data, mismatch_run,
                       needs_reload, destroyed, IpcVars>>

\* perform_action for the actions that are bound to keys, and the
\* apply_output_configs that follows ReloadConfiguration in the press
\* handler. acc = [s, needs_reload].
perform_bound_action(acc, action, loaded) ==
    CASE action = "ReloadConfiguration" ->
             [s |-> apply_output_configs(ReloadConfiguration(acc.s, loaded)),
              needs_reload |-> TRUE]
      [] action = "ToggleFloat" -> [acc EXCEPT !.s = ToggleFloat(@)]
      [] action = "FocusLeft" -> [acc EXCEPT !.s = Focus(@, "Left")]
      [] action = "FocusRight" -> [acc EXCEPT !.s = Focus(@, "Right")]
      [] action = "FocusUp" -> [acc EXCEPT !.s = Focus(@, "Up")]
      [] action = "FocusDown" -> [acc EXCEPT !.s = Focus(@, "Down")]
      [] OTHER -> acc

RECURSIVE run_actions(_, _, _)
run_actions(acc, actions, loaded) ==
    IF actions = <<>> THEN acc
    ELSE run_actions(perform_bound_action(acc, Head(actions), loaded), Tail(actions), loaded)

\* BindingEvent::Pressed for the binding key_bindings[i]; the configuration
\* file holds `loaded`.
PressedBinding(i, loaded) ==
    LET ran == run_actions([s |-> Entry, needs_reload |-> needs_reload],
                           key_bindings[i].actions, loaded)
        drained == {key_bindings[k].obj : k \in 1..Len(key_bindings)}
    IN  /\ events_in_sequence < MaxBatch
        /\ events_in_sequence' = events_in_sequence + 1
        /\ Apply(ran.s)
        /\ IF ran.needs_reload
           THEN /\ Cardinality(destroyed \cup drained) <= MaxDestroyed
                /\ \E entries \in EntryOrders(ran.s.config) :
                       key_bindings' = setup_keybindings(
                                           <<>>, entries, Cardinality(BindingObjects) + 1)
                /\ destroyed' = destroyed \cup drained
                /\ requests' = Sent("pressed",
                                    [k \in 1..Len(key_bindings) |->
                                        Req("destroy", key_bindings[k].obj)]
                                    \o <<Req("manage_dirty", NoWin)>>)
           ELSE /\ requests' = Sent("pressed", <<>>)
                /\ UNCHANGED <<key_bindings, destroyed>>
        /\ needs_reload' = FALSE
        /\ UNCHANGED <<probe, active_river_outputs, window_data, mismatch_run, IpcVars>>

PressedEvent ==
    \E i \in 1..Len(key_bindings), loaded \in ReloadConfigs : PressedBinding(i, loaded)

\* main builds AppState around the configuration it loaded.
InitReload == \E file \in ConfigFiles : ConstructedWith(load(file)) /\ probe = NoProbe

NextReload ==
    \/ ProtocolHeadsDone
    \/ SeatEvent
    \/ ProtocolWindowEvent(OutputWinIds)
    \/ ProtocolAppIdEvent(OutputWinIds)
    \/ PressedEvent
    \/ ManageStartRun

SpecReload == InitReload /\ [][NextReload]_vars

---------------------------------------------------------------------------
\* SpecFloatFocus: directional focus among floating windows. One monitor,
\* the windows 1..MaxFloatWindows.

\* The key of Focus(dir) is pressed while a floating window has the focus.
PressFocusOnFloat ==
    /\ HasWin(windows, focused_window)
    /\ Win(windows, focused_window).is_floating
    /\ PressFocus

NextFloatFocus ==
    \/ HeadsDone(OneMonitor, {Mode1080})
    \/ WindowEvent(FloatWinIds)
    \/ AppIdEvent(FloatWinIds, {"kitty"})
    \/ ManageStartEvent
    \/ PressToggleFloat
    \/ PressFocusOnFloat

SpecFloatFocus == Init /\ [][NextFloatFocus]_vars

---------------------------------------------------------------------------
\* SpecBlacklist: windows of input methods and virtual machines. One monitor,
\* the windows 1..MaxWindows.
BlacklistAppIds == {"kitty", "fcitx5", "virtualbox"}

NextBlacklist ==
    \/ HeadsDone(OneMonitor, {Mode1080})
    \/ WindowEvent(WinIds)
    \/ AppIdEvent(WinIds, BlacklistAppIds)
    \/ WindowInteractionEvent(WinIds)
    \/ ManageStartEvent

SpecBlacklist == Init /\ [][NextBlacklist]_vars

---------------------------------------------------------------------------
\* SpecVisibility: the show and hide requests of a manage sequence. Two
\* monitors, of which the compositor announces M1 first, and the windows
\* 1..MaxWindows.
VisibilityHeadsDone ==
    \E names \in NewHeadBatches(Monitors) :
        /\ "M1" \in HeadNames \/ Head(names) = "M1"
        /\ Ran(apply_output_configs(heads_announced(Entry, names, Mode1080)))

VisibilityAppIdEvent ==
    \E id \in WinIds, app_id \in AppIds,
       any_output \in (IF outputs = EmptyMap THEN {NoOut} ELSE DOMAIN outputs) :
        /\ HasWin(windows, id)
        /\ RanSending(AppId(Entry, id, app_id, any_output),
                      AppIdRequests(Entry, id, app_id, any_output))

VisibilityFocusTag == \E n \in TagArgs : Ran(FocusTag(Entry, TagMaskOfArg(n)))

VisibilityFocusOutput ==
    \E dir \in Direction : \E sorted \in SortedOutputs(Entry, dir) :
        Ran(cycle_output_focus(Entry, dir, sorted))

NextVisibility ==
    \/ VisibilityHeadsDone
    \/ ProtocolWindowEvent(WinIds)
    \/ VisibilityAppIdEvent
    \/ VisibilityFocusTag
    \/ VisibilityFocusOutput
    \/ ManageStartRun

SpecVisibility == Init /\ [][NextVisibility]_vars

---------------------------------------------------------------------------
\* SpecBroadcast: the status written to the clients of the status socket.
\* One monitor, the windows 1..MaxOutputWindows, up to MaxClients clients.
MaxClients == 2

\* A status bar connects to the status socket.
ClientConnects ==
    /\ Len(ipc_clients) + ipc_backlog < MaxClients
    /\ ipc_backlog' = ipc_backlog + 1
    /\ UNCHANGED <<windows, outputs, heads, layout_roots, tag_focus_history,
                   last_geometry, focused_window, focused_output, focused_tags,
                   restrict_focus_to_tiling, pending_focus_dir, pending_pointer_warp,
                   config, events_in_sequence, wrap_landing, probe,
                   active_river_outputs, window_data, requests, mismatch_run,
                   BindingVars, ipc_clients, last_sent_json, broadcast_log>>

BroadcastFocusTag == \E n \in TagArgs : Ran(FocusTag(Entry, TagMaskOfArg(n)))

NextBroadcast ==
    \/ ProtocolHeadsDone
    \/ ProtocolWindowEvent(OutputWinIds)
    \/ ProtocolAppIdEvent(OutputWinIds)
    \/ BroadcastFocusTag
    \/ ClientConnects
    \/ ManageStartRun

SpecBroadcast == Init /\ [][NextBroadcast]_vars

---------------------------------------------------------------------------
\* Properties.

TreeKeys == DOMAIN layout_roots

\* C1: every leaf of the tree keyed (monitor, tag) is a window whose monitor
\* is that monitor and whose tag mask meets that tag.
C1_LeavesBelongToTheirTree ==
    \A key \in TreeKeys : \A id \in LeafSet(layout_roots[key]) :
        HasWin(windows, id) =>
            /\ Win(windows, id).output = key[1]
            /\ BitAnd(Win(windows, id).tags, key[2]) # 0

\* C2: no floating window is a leaf of a tree.
C2_NoFloatIsALeaf ==
    \A key \in TreeKeys : \A id \in LeafSet(layout_roots[key]) :
        HasWin(windows, id) => ~Win(windows, id).is_floating

TreesHolding(id) == {key \in TreeKeys : tree_contains(layout_roots[key], id)}

\* C3: a window that has a non-blacklisted app_id and is not floating is a
\* leaf of exactly one tree.
C3_TiledWindowInOneTree ==
    \A i \in 1..Len(windows) :
        (/\ windows[i].app_id # NoAppId
         /\ ~contains_fcitx(windows[i].app_id)
         /\ ~windows[i].is_floating)
        => Cardinality(TreesHolding(windows[i].id)) = 1

\* C4: the active tag of every monitor has exactly one bit set.
C4_ActiveTagOneHot == \A m \in DOMAIN outputs : OneHot(outputs[m].tags)

\* C4 happens: a directional focus has just wrapped a monitor to another tag.
C4_Witness ==
    /\ wrap_landing.phase = "wrapped"
    /\ \E m \in DOMAIN outputs : outputs[m].tags # 1

\* The state is the one a ManageStart has just returned in.
AfterManageStart == events_in_sequence = 0 /\ (windows # <<>> \/ outputs # EmptyMap)

\* C5: right after ManageStart the focused window, if there is one, is
\* registered and on the active tag of the focused monitor, and there is none
\* only if the focused monitor has no window on its active tag.
C5_FocusAfterManageStart ==
    (AfterManageStart /\ focused_output \in DOMAIN outputs) =>
        LET active_tag == outputs[focused_output].tags IN
        IF focused_window # NoWin
        THEN /\ HasWin(windows, focused_window)
             /\ BitAnd(Win(windows, focused_window).tags, active_tag) # 0
        ELSE ~\E i \in 1..Len(windows) :
                 /\ windows[i].output = focused_output
                 /\ BitAnd(windows[i].tags, active_tag) # 0

\* C7: every leaf of every tree is a window of the registry (so none is left
\* of a window that was closed).
C7_LeavesAreRegistered ==
    \A key \in TreeKeys : \A id \in LeafSet(layout_roots[key]) : HasWin(windows, id)

OppositeOf(dir) ==
    CASE dir = "Left" -> "Right" [] dir = "Right" -> "Left"
      [] dir = "Up" -> "Down" [] dir = "Down" -> "Up"

\* C10: after a directional focus wrapped to a tag with a tree, and after the
\* ManageStart that follows, the focused window is the edge window of that
\* tree on the side opposite to the motion; after a wrap to a tag without a
\* tree no window is focused.
C10_WrapLandsOnOppositeEdge ==
    wrap_landing.phase # "none" =>
        IF wrap_landing.key \in TreeKeys
        THEN focused_window =
                 find_edge_in_tree(layout_roots[wrap_landing.key],
                                   OppositeOf(wrap_landing.dir))
        ELSE wrap_landing.phase = "wrapped" => focused_window = NoWin

\* Rectangle a lies within rectangle b.
Within(a, b) ==
    /\ a.x >= b.x
    /\ a.y >= b.y
    /\ a.x + a.w <= b.x + b.w
    /\ a.y + a.h <= b.y + b.h

\* C6: the usable area of every monitor lies within its full area.
C6_UsableWithinFull ==
    \A m \in DOMAIN outputs : Within(outputs[m].usable_area, outputs[m].full_area)

\* C8: swapping the same two ids twice gives back the tree.
C8_SwapInvolution ==
    probe.op = "swap_windows" => probe.twice = probe.tree

\* C8 happens: two different leaves of the tree were swapped, and one swap
\* changed the tree.
C8_Witness ==
    /\ probe.op = "swap_windows"
    /\ probe.id1 # probe.id2
    /\ tree_contains(probe.tree, probe.id1)
    /\ tree_contains(probe.tree, probe.id2)
    /\ probe.once # probe.tree

\* C9 as stated: for every leaf t and every window w, removing w after
\* inserting it at t gives back the tree.
C9_RemoveInsertAnyWindow ==
    probe.op = "insert_remove" => probe.removed = probe.tree

\* C9: for every leaf t and every window w that is not a leaf of the tree,
\* removing w after inserting it at t gives back the tree.
C9_RemoveInsertNewWindow ==
    (probe.op = "insert_remove" /\ ~tree_contains(probe.tree, probe.id2))
        => probe.removed = probe.tree

\* C9 happens: a new window was inserted at a leaf below the root and removed.
C9_Witness ==
    /\ probe.op = "insert_remove"
    /\ ~tree_contains(probe.tree, probe.id2)
    /\ probe.tree.kind = "Container"
    /\ probe.inserted # probe.tree


\* The paths (sequences of "L" / "R" from the root) to the leaves holding id.
RECURSIVE PathsTo(_, _)
PathsTo(node, id) ==
    IF node.kind = "Window" THEN (IF node.id = id THEN {<<>>} ELSE {})
    ELSE {<<"L">> \o p : p \in PathsTo(node.left_child, id)}
         \cup {<<"R">> \o p : p \in PathsTo(node.right_child, id)}

\* node with the subtree at path replaced by sub.
RECURSIVE ReplacedAt(_, _, _)
ReplacedAt(node, path, sub) ==
    IF path = <<>> THEN sub
    ELSE IF Head(path) = "L"
    THEN [node EXCEPT !.left_child = ReplacedAt(node.left_child, Tail(path), sub)]
    ELSE [node EXCEPT !.right_child = ReplacedAt(node.right_child, Tail(path), sub)]

\* C19: insert_at returns true exactly when the tree has a leaf for the
\* target; then the tree is the old one with one leaf of the target replaced by
\* a container (the given split, ratio 0.5, the old leaf left, the new window
\* right) and nothing else changed; otherwise the tree is unchanged.
C19_InsertAtReplacesOneLeaf ==
    probe.op = "insert_at" =>
        IF tree_contains(probe.tree, probe.id1)
        THEN /\ probe.found
             /\ \E path \in PathsTo(probe.tree, probe.id1) :
                    probe.node = ReplacedAt(probe.tree, path,
                                            [kind |-> "Container", split_type |-> probe.split,
                                             ratio |-> [num |-> 1, den |-> 2],
                                             left_child |-> [kind |-> "Window", id |-> probe.id1],
                                             right_child |-> [kind |-> "Window", id |-> probe.id2]])
        ELSE ~probe.found /\ probe.node = probe.tree

\* C19 happens: the target was a leaf below the root.
C19_Witness ==
    /\ probe.op = "insert_at"
    /\ probe.found
    /\ probe.tree.kind = "Container"
    /\ probe.id1 # probe.id2

\* The (split, ratio) of the containers of a tree, in preorder.
RECURSIVE SplitsOf(_)
SplitsOf(node) ==
    IF node.kind # "Container" THEN <<>>
    ELSE << <<node.split_type, node.ratio>> >>
         \o SplitsOf(node.left_child) \o SplitsOf(node.right_child)

\* Sequence a is b with some elements left out.
RECURSIVE IsSubsequence(_, _)
IsSubsequence(a, b) ==
    IF a = <<>> THEN TRUE
    ELSE IF b = <<>> THEN FALSE
    ELSE IF Head(a) = Head(b) THEN IsSubsequence(Tail(a), Tail(b))
    ELSE IsSubsequence(a, Tail(b))

\* Every container has two children that are trees.
RECURSIVE TwoChildren(_)
TwoChildren(node) ==
    \/ node.kind = "Window"
    \/ /\ node.kind = "Container"
       /\ TwoChildren(node.left_child)
       /\ TwoChildren(node.right_child)

\* C20: the result of remove_at has the leaves of the tree other than the
\* target, in the same order; it is a tree whose containers have two children
\* and the splits and ratios they had; it is empty exactly when every leaf was
\* the target; and it is the tree itself when the target is no leaf of it.
C20_RemoveAtExcisesTarget ==
    probe.op = "remove_at" =>
        /\ Leaves(probe.removed) = SelectSeq(Leaves(probe.tree), LAMBDA id : id # probe.id1)
        /\ (probe.removed.kind = "None") = (LeafSet(probe.tree) = {probe.id1})
        /\ probe.removed.kind # "None" =>
               /\ TwoChildren(probe.removed)
               /\ IsSubsequence(SplitsOf(probe.removed), SplitsOf(probe.tree))
               /\ Len(SplitsOf(probe.removed)) = Len(Leaves(probe.removed)) - 1
        /\ ~tree_contains(probe.tree, probe.id1) => probe.removed = probe.tree

\* C20 happens: a leaf was removed and its sibling took the place of their
\* parent, below the root.
C20_Witness ==
    /\ probe.op = "remove_at"
    /\ tree_contains(probe.tree, probe.id1)
    /\ probe.removed.kind = "Container"


\* The highest tag index some window with a non-blacklisted app_id is on (0
\* when there is none).
HighestOccupiedIdx ==
    LET idxs == {highest_bit(windows[i].tags) :
                    i \in {j \in 1..Len(windows) :
                              /\ windows[j].app_id # NoAppId
                              /\ ~contains_fcitx(windows[j].app_id)
                              /\ windows[j].tags > 0}}
    IN  IF idxs = {} THEN 0 ELSE CHOOSE i \in idxs : \A j \in idxs : j <= i

\* Focus(dir) takes the tiling path and finds no neighbour of the focused
\* window (or no window is focused).
NoNeighbourIn(dir) ==
    /\ focused_output \in DOMAIN outputs
    /\ ~(/\ HasWin(windows, focused_window)
         /\ Win(windows, focused_window).is_floating
         /\ ~Win(windows, focused_window).is_fullscreen)
    /\ (focused_window # NoWin => find_neighbor(Entry, focused_window, dir) = NoWin)

\* C12: when Focus(Left / Right) finds no neighbour the active tag index i of
\* the focused monitor becomes i + 1 (0 if i >= bound) for Right and i - 1
\* (bound if i = 0) for Left, with bound = min(31, highest occupied index + 1);
\* Focus(Up / Down) without a neighbour changes neither the active tag nor the
\* focused window.
C12_TagWrapArithmetic ==
    \A dir \in Direction :
        NoNeighbourIn(dir) =>
            LET after == Focus(Entry, dir)
                i == highest_bit(outputs[focused_output].tags)
                bound == IF HighestOccupiedIdx + 1 < 31 THEN HighestOccupiedIdx + 1 ELSE 31
            IN  CASE dir = "Right" ->
                       after.outputs[focused_output].tags = 2 ^ (IF i >= bound THEN 0 ELSE i + 1)
                  [] dir = "Left" ->
                       after.outputs[focused_output].tags = 2 ^ (IF i = 0 THEN bound ELSE i - 1)
                  [] OTHER ->
                       /\ after.outputs[focused_output].tags = outputs[focused_output].tags
                       /\ after.focused_window = focused_window


\* The state move_to_output(window, dir) has to leave behind when the monitors
\* are sorted as `sorted`.
MovedToOutput(w, dir, sorted) ==
    LET src == Win(windows, w).output
        dst == sorted[NextPos(PosOf(sorted, src), Len(sorted), dir)]
        old_key == <<src, Win(windows, w).tags>>
        new_key == <<dst, outputs[dst].tags>>
        area == outputs[dst].usable_area
    IN  /\ old_key \in DOMAIN layout_roots' => ~tree_contains(layout_roots'[old_key], w)
        /\ Win(windows', w).output = dst
        /\ Win(windows', w).tags = outputs[dst].tags
        /\ new_key \in DOMAIN layout_roots'
        /\ layout_roots'[new_key] =
               IF new_key \notin DOMAIN layout_roots THEN Window(w)
               ELSE CASE dir = "Right" ->
                           Container("Vertical", Half, Window(w), layout_roots[new_key])
                      [] dir = "Left" ->
                           Container("Vertical", Half, layout_roots[new_key], Window(w))
                      [] dir = "Down" ->
                           Container("Horizontal", Half, Window(w), layout_roots[new_key])
                      [] dir = "Up" ->
                           Container("Horizontal", Half, layout_roots[new_key], Window(w))
        /\ pending_pointer_warp' =
               [kind |-> "Some", x |-> area.x + (area.w \div 2), y |-> area.y + (area.h \div 2)]

OtherFloats(w) ==
    {i \in 1..Len(windows) :
        /\ windows[i].id # w
        /\ windows[i].is_floating
        /\ windows[i].output = Win(windows, w).output
        /\ windows[i].tags = Win(windows, w).tags}

\* The origin of cascade slot k on the usable area `area`.
SlotOrigin(area, k) ==
    [x |-> area.x + ((area.w - (area.w * 3) \div 5) \div 2) + 25 * k,
     y |-> area.y + ((area.h - (area.h * 3) \div 5) \div 2) + 25 * k]

SlotIsFree(w, area, k) ==
    \A i \in OtherFloats(w) :
        ~(/\ Abs(windows[i].float_geo.x - SlotOrigin(area, k).x) < 5
          /\ Abs(windows[i].float_geo.y - SlotOrigin(area, k).y) < 5)

\* C14: a tile -> float toggle gives the window 60% x 60% of the usable area
\* of its monitor at the centred position moved by (25k, 25k), k being the
\* smallest slot of 0..9 that is not within 5 px in x and in y of the origin of
\* another floating window of the same monitor and tag; on an empty
\* 1000 x 1000 monitor the first three origins are (200,200), (225,225) and
\* (250,250).
C14_FloatCascade ==
    [][(/\ HasWin(windows, focused_window)
        /\ ~Win(windows, focused_window).is_floating
        /\ Win(windows, focused_window).output \in DOMAIN outputs
        /\ \E k \in 0..9 :
               SlotIsFree(focused_window,
                          outputs[Win(windows, focused_window).output].usable_area, k)
        /\ Handled(ToggleFloat(Entry)))
       => LET w == focused_window
              area == outputs[Win(windows, w).output].usable_area
              k == CHOOSE a \in 0..9 :
                       /\ SlotIsFree(w, area, a)
                       /\ \A b \in 0..(a - 1) : ~SlotIsFree(w, area, b)
              rect == Win(windows', w).float_geo
              n == Cardinality(OtherFloats(w))
          IN  /\ Win(windows', w).is_floating
              /\ rect.w = (area.w * 3) \div 5
              /\ rect.h = (area.h * 3) \div 5
              /\ rect.x = SlotOrigin(area, k).x
              /\ rect.y = SlotOrigin(area, k).y
              /\ (/\ area = Geometry(0, 0, 1000, 1000)
                  /\ n <= 2
                  /\ {<<windows[i].float_geo.x, windows[i].float_geo.y>> : i \in OtherFloats(w)}
                       = {<<200 + 25 * j, 200 + 25 * j>> : j \in 0..(n - 1)})
                 => rect = Geometry(200 + 25 * n, 200 + 25 * n, 600, 600)]_vars

\* Three windows float on the 1000 x 1000 monitor, cascaded from (200,200).
C14_Witness ==
    /\ Len(windows) = 3
    /\ \A i \in 1..3 : windows[i].is_floating /\ windows[i].tags = windows[1].tags
    /\ {windows[i].float_geo : i \in 1..3}
         = {Geometry(200 + 25 * j, 200 + 25 * j, 600, 600) : j \in 0..2}


\* C15: while a window is fullscreen no manage sequence sends
\* propose_dimensions for it, also when it is a leaf of the tree laid out.
C15_NoProposalWhileFullscreen ==
    requests.run = "manage_start" =>
        \A k \in 1..Len(requests.seq) :
            requests.seq[k].req = "propose_dimensions" =>
                ~Win(windows, requests.seq[k].win).is_fullscreen


ManageRequests ==
    {"propose_dimensions", "set_borders", "set_tiled", "show", "hide",
     "fullscreen", "exit_fullscreen"}

RenderRequests == {"set_position", "place_top"}

\* The sequence holds `finish` once, as its last request.
EndsWithOne(seq, finish) ==
    /\ Len(seq) >= 1
    /\ seq[Len(seq)].req = finish
    /\ \A k \in 1..(Len(seq) - 1) : seq[k].req # finish

\* C18: every run of the manage_start handler sends exactly one
\* manage_finish, as its last request, and every run of the render_start
\* handler exactly one render_finish; propose_dimensions, set_borders,
\* set_tiled, show, hide, fullscreen and exit_fullscreen are sent only by a
\* manage_start run and set_position / place_top only by a render_start run.
C18_TransactionProtocol ==
    LET sent == {requests.seq[k].req : k \in 1..Len(requests.seq)} IN
    /\ requests.run = "manage_start" =>
           /\ EndsWithOne(requests.seq, "manage_finish")
           /\ sent \cap (RenderRequests \cup {"render_finish"}) = {}
    /\ requests.run = "render_start" =>
           /\ EndsWithOne(requests.seq, "render_finish")
           /\ sent \cap (ManageRequests \cup {"manage_finish"}) = {}
    /\ requests.run \notin {"manage_start", "render_start"} =>
           sent \cap (ManageRequests \cup RenderRequests
                      \cup {"manage_finish", "render_finish"}) = {}

\* A manage sequence sized a tiled and a floating window and a render
\* sequence positioned them.
C18_Witness ==
    /\ requests.run = "render_start"
    /\ \E k \in 1..Len(requests.seq) : requests.seq[k].req = "place_top"
    /\ \E i, j \in 1..Len(windows) :
           /\ windows[i].is_floating /\ ~windows[j].is_floating
           /\ DataOf(window_data, windows[i].id).last_proposed_w > 0
           /\ DataOf(window_data, windows[j].id).last_proposed_w > 0


\* C16: a run of consecutive mismatching dimensions reports of a tiled,
\* non-fullscreen window requests manage_dirty for each of its first 50
\* reports and for none after them, and logs the surrender warning once, when
\* the run goes on after the 50th; a report within 2 px ends the run with the
\* retry counter at 0.
C16_SizingRetriesBounded ==
    /\ \A id \in DOMAIN mismatch_run :
           /\ mismatch_run[id].dirty <= 50
           /\ mismatch_run[id].dirty = Min(mismatch_run[id].reports, 50)
           /\ mismatch_run[id].warned = (IF mismatch_run[id].reports > 50 THEN 1 ELSE 0)
    /\ \A id \in DOMAIN window_data :
           id \notin DOMAIN mismatch_run => window_data[id].layout_retry_count = 0

\* A window kept mismatching after its 50th report and was given up.
C16_Witness ==
    \E id \in DOMAIN mismatch_run \cap DOMAIN window_data :
        /\ mismatch_run[id].reports = 52
        /\ mismatch_run[id].dirty = 50
        /\ mismatch_run[id].warned = 1
        /\ window_data[id].layout_retry_count = 51


\* The bindings a configuration asks for: the entries with a known key.
BindingsAskedBy(cfg) ==
    {e \in (IF "keybindings" \in DOMAIN cfg THEN cfg.keybindings
            ELSE {DefaultBindings[k] : k \in 1..Len(DefaultBindings)}) :
        e.key # "NoSuchKey"}

ReloadDone(old) ==
    LET sent == {requests'.seq[k] : k \in 1..Len(requests'.seq)}
        new_objs == {key_bindings'[k].obj : k \in 1..Len(key_bindings')}
    IN  /\ \A k \in 1..Len(old) :
               /\ Req("destroy", old[k].obj) \in sent
               /\ old[k].obj \in destroyed'
               /\ old[k].obj \notin new_objs
        /\ {KeyEntry(key_bindings'[k].key, key_bindings'[k].actions) :
                k \in 1..Len(key_bindings')} = BindingsAskedBy(config')
        /\ Len(key_bindings') = Cardinality(BindingsAskedBy(config'))
        /\ needs_reload' = FALSE
        /\ Req("manage_dirty", NoWin) \in sent

\* C17: when a key press runs reload_configuration, at the end of its
\* handler every binding object of before was sent destroy and is out of the
\* table, the table holds just the bindings of the configuration loaded,
\* needs_reload is clear and manage_dirty was requested; a manage sequence
\* enables the bindings of the table, all of them and none that was destroyed.
C17_ReloadRebindsAtomically ==
    [][/\ \A i \in 1..Len(key_bindings), loaded \in ReloadConfigs :
              (/\ \E k \in 1..Len(key_bindings[i].actions) :
                      key_bindings[i].actions[k] = "ReloadConfiguration"
               /\ PressedBinding(i, loaded))
              => ReloadDone(key_bindings)
       /\ requests'.run = "manage_start" =>
              LET enabled == {requests'.seq[k].win :
                                 k \in {j \in 1..Len(requests'.seq) :
                                           requests'.seq[j].req = "enable"}}
              IN  /\ enabled = {key_bindings'[k].obj : k \in 1..Len(key_bindings')}
                  /\ enabled \cap destroyed' = {}]_vars

\* After a reload, a manage sequence enabled the bindings of the new table
\* while the objects of the old one are destroyed.
C17_Witness ==
    /\ requests.run = "manage_start"
    /\ destroyed # {}
    /\ Len(key_bindings) = 2
    /\ \A k \in 1..Len(key_bindings) : Req("enable", key_bindings[k].obj) \in
           {requests.seq[j] : j \in 1..Len(requests.seq)}


\* C11: when the status rendered at a manage_start is the one rendered at the
\* manage_start before it, the second writes nothing to any status client,
\* also when a client connected between the two or none was connected during
\* the first.
C11_BroadcastDedupe ==
    [][(/\ broadcast_log.rendered # EmptyJson
        /\ ManageStartRun
        /\ broadcast_log'.rendered = broadcast_log.rendered)
       => broadcast_log'.written = <<>>]_vars


\* The rectangle touches the dir edge of the area.
TouchesEdge(rect, area, dir) ==
    CASE dir = "Left" -> rect.x = area.x
      [] dir = "Right" -> rect.x + rect.w = area.x + area.w
      [] dir = "Up" -> rect.y = area.y
      [] dir = "Down" -> rect.y + rect.h = area.y + area.h

\* C21: for every tree, rectangle and direction, the rectangle that
\* calculate_layout gives to the window find_edge_in_tree returns touches the
\* edge of the rectangle in that direction.
C21_FindEdgeIsPhysicalEdge ==
    probe.op = "find_edge" =>
        /\ Cardinality(LeafSet(probe.tree)) = Len(Leaves(probe.tree)) =>
               \A k \in 1..Len(probe.results) :
                   probe.results[k][1] = probe.edge =>
                       TouchesEdge(probe.results[k][2], probe.area, probe.dir)
        /\ \E k \in 1..Len(probe.results) :
               /\ probe.results[k][1] = probe.edge
               /\ TouchesEdge(probe.results[k][2], probe.area, probe.dir)

\* A tree of three windows with both kinds of split was asked for its right
\* edge, and the window found is not the first leaf.
C21_Witness ==
    /\ probe.op = "find_edge"
    /\ probe.dir = "Right"
    /\ probe.area = Geometry(0, 0, 1920, 1080)
    /\ Cardinality(LeafSet(probe.tree)) = 3
    /\ SplitsOf(probe.tree) = << <<"Horizontal", Half>>, <<"Vertical", Half>> >>
    /\ probe.edge # Leaves(probe.tree)[1]


\* The app_id has the substring "virtual".
contains_virtual(app_id) == app_id \in {"virtualbox"}

\* C22: the app_id event of a window whose app_id contains "fcitx" or
\* "virtual" inserts the window into no tree and leaves focused_window and
\* the focus history as they were.
C22_BlacklistedNotTiled ==
    [][\A id \in WinIds : \A app_id \in BlacklistAppIds : \A any_output \in DOMAIN outputs :
          (/\ HasWin(windows, id)
           /\ contains_fcitx(app_id) \/ contains_virtual(app_id)
           /\ Handled(AppId(Entry, id, app_id, any_output)))
          => /\ layout_roots' = layout_roots
             /\ focused_window' = focused_window
             /\ tag_focus_history' = tag_focus_history]_vars


\* The positions of the show and hide requests for a window.
ShowHideOf(id) ==
    {k \in 1..Len(requests.seq) :
        requests.seq[k].win = id /\ requests.seq[k].req \in {"show", "hide"}}

\* The window's tags meet the active tag of the monitor it is on.
OnActiveTagOfItsMonitor(w) ==
    /\ w.output \in DOMAIN outputs
    /\ BitAnd(w.tags, outputs[w.output].tags) # 0

\* C23: a manage_start sends each window that has an app_id without "fcitx"
\* and "virtual" exactly one of show and hide: show when its tags meet the
\* active tag of its own monitor, hide otherwise, also when its monitor is
\* unknown.
C23_Visibility ==
    requests.run = "manage_start" =>
        \A i \in 1..Len(windows) :
            LET w == windows[i] IN
            (w.app_id # NoAppId /\ ~contains_fcitx(w.app_id) /\ ~contains_virtual(w.app_id))
            => /\ Cardinality(ShowHideOf(w.id)) = 1
               /\ \A k \in ShowHideOf(w.id) :
                      requests.seq[k].req =
                          (IF OnActiveTagOfItsMonitor(w) THEN "show" ELSE "hide")

\* A manage_start hid a window whose tags meet the active tag of the focused
\* monitor but not the one of its own monitor, and a window whose monitor is
\* unknown.
C23_Witness ==
    /\ requests.run = "manage_start"
    /\ \E i, j \in 1..Len(windows) :
           /\ windows[i].app_id = "kitty" /\ windows[j].app_id = "kitty"
           /\ windows[i].output \in DOMAIN outputs
           /\ windows[i].output # focused_output
           /\ focused_output \in DOMAIN outputs
           /\ BitAnd(windows[i].tags, outputs[focused_output].tags) # 0
           /\ ~OnActiveTagOfItsMonitor(windows[i])
           /\ windows[j].output \notin DOMAIN outputs
           /\ Req("hide", windows[i].id) \in {requests.seq[k] : k \in 1..Len(requests.seq)}
           /\ Req("hide", windows[j].id) \in {requests.seq[k] : k \in 1..Len(requests.seq)}


\* C24: when the configuration file cannot be parsed, the key-binding table
\* built from the configuration the program continues with holds no binding.
C24_ParseFailureNoBindings ==
    [][\A file \in ConfigFiles :
          (file.kind = "unparsable" /\ config = load(file) /\ SeatEvent)
          => key_bindings' = <<>>]_vars


\* The wrap bound move_window_relative computes on the monitor.
MonitorBound(out_name) ==
    LET occupied == get_occupied_tags_for_monitor(Entry, out_name)
        max_occupied_idx == IF occupied = 0 THEN 0 ELSE highest_bit(occupied)
    IN  Min(max_occupied_idx + 1, 31)

\* C25: when Focus(Left / Right) finds no neighbour and cycles the tag, the
\* wrap bound is the one of the focused monitor's own occupancy, the bound
\* the directional window move uses there: Left from index 0 goes to that
\* bound and Right from that bound or beyond goes to 0, whatever windows the
\* other monitors hold.
C25_WrapBoundOfFocusedMonitor ==
    \A dir \in {"Left", "Right"} :
        NoNeighbourIn(dir) =>
            LET after == Focus(Entry, dir)
                i == highest_bit(outputs[focused_output].tags)
                bound == MonitorBound(focused_output)
            IN  IF dir = "Right"
                THEN after.outputs[focused_output].tags = 2 ^ (IF i >= bound THEN 0 ELSE i + 1)
                ELSE after.outputs[focused_output].tags = 2 ^ (IF i = 0 THEN bound ELSE i - 1)


\* C26: a handler of a key press or a window event (any handler but the
\* focus recovery of ManageStart) that changes focused_window to a window w
\* leaves tag_focus_history[(w's monitor, that monitor's active tag)] = w.
C26_FocusMemory ==
    [][(/\ focused_window' # focused_window
        /\ HasWin(windows', focused_window')
        /\ events_in_sequence' # 0)
       => LET w == Win(windows', focused_window')
              key == <<w.output, outputs'[w.output].tags>>
          IN  /\ w.output \in DOMAIN outputs'
              /\ key \in DOMAIN tag_focus_history'
              /\ tag_focus_history'[key] = w.id]_vars


\* The tag masks a window can be moved to.
MoveMasks == {2 ^ k : k \in 0..(MaxTagIdx + 1)}

\* What move_window_to_tag(w, target_mask, follow = true, hint) has to leave
\* behind in `after`, for a window w of a known monitor and another tag.
MovedToTag(after, w, target_mask, hint) ==
    LET old_key == <<w.output, w.tags>>
        new_key == <<w.output, target_mask>>
        first == hint \in {"Leftmost", "Topmost"}
        split == IF hint \in {"Leftmost", "Rightmost"} THEN "Vertical" ELSE "Horizontal"
    IN  /\ Win(after.windows, w.id).tags = target_mask
        /\ old_key \in DOMAIN after.layout_roots
               => ~tree_contains(after.layout_roots[old_key], w.id)
        /\ (old_key \in DOMAIN layout_roots /\ layout_roots[old_key] = Window(w.id))
               => old_key \notin DOMAIN after.layout_roots
        /\ new_key \in DOMAIN after.layout_roots
        /\ after.layout_roots[new_key] =
               IF new_key \notin DOMAIN layout_roots THEN Window(w.id)
               ELSE IF first
               THEN Container(split, Half, Window(w.id), layout_roots[new_key])
               ELSE Container(split, Half, layout_roots[new_key], Window(w.id))
        /\ new_key \in DOMAIN after.tag_focus_history
        /\ after.tag_focus_history[new_key] = w.id
        /\ after.outputs[w.output].tags = target_mask
        /\ after.focused_window = w.id

\* C27: move_window_to_tag(w, target_mask, follow = true, hint) with a
\* target_mask other than w's tags gives w the tags target_mask, takes it out
\* of the (monitor, old tags) tree (dropping the key when w was its only
\* leaf), makes it the root of the (monitor, target_mask) tree or the child
\* on the hint's side of a new root with ratio 1/2 over the old root, writes
\* it to the focus history of (monitor, target_mask), switches the monitor to
\* target_mask and focuses w; with target_mask equal to w's tags nothing
\* changes.
C27_CrossTagMove ==
    \A i \in 1..Len(windows) : \A target_mask \in MoveMasks : \A hint \in MoveHint :
        LET w == windows[i]
            after == move_window_to_tag(Entry, w.id, target_mask, TRUE, hint)
        IN  w.output \in DOMAIN outputs =>
                IF target_mask = w.tags THEN after = Entry
                ELSE MovedToTag(after, w, target_mask, hint)

\* The focused window was moved to a tag whose tree held the other window.
C27_Witness ==
    /\ Len(windows) = 2
    /\ focused_window # NoWin
    /\ HasWin(windows, focused_window)
    /\ \E other \in WinIds \ {focused_window} :
           LET w == Win(windows, focused_window)
               key == <<w.output, w.tags>>
           IN  /\ w.tags = 2
               /\ w.output \in DOMAIN outputs
               /\ outputs[w.output].tags = 2
               /\ key \in DOMAIN layout_roots
               /\ layout_roots[key] =
                      Container("Vertical", Half, Window(w.id), Window(other))
               /\ <<w.output, 1>> \notin DOMAIN layout_roots
               /\ key \in DOMAIN tag_focus_history
               /\ tag_focus_history[key] = w.id


\* The tree without its windows: shape, splits and ratios.
RECURSIVE ShapeOf(_)
ShapeOf(node) ==
    IF node.kind # "Container" THEN [kind |-> node.kind]
    ELSE [node EXCEPT !.left_child = ShapeOf(@), !.right_child = ShapeOf(@)]

\* The leaves with w and n exchanged.
Exchanged(leaves, w, n) ==
    [k \in 1..Len(leaves) |->
        IF leaves[k] = w THEN n ELSE IF leaves[k] = n THEN w ELSE leaves[k]]

FloatsWith(w) ==
    {windows[i] : i \in {j \in 1..Len(windows) :
                           /\ windows[j].is_floating
                           /\ windows[j].output = w.output
                           /\ BitAnd(windows[j].tags, w.tags) # 0}}

\* a comes before b in the order by (x, y, id) for Left / Right and by
\* (y, x, id) for Up / Down.
SortsBefore(a, b, dir) ==
    LET ka == IF dir \in {"Left", "Right"} THEN <<a.float_geo.x, a.float_geo.y, a.id>>
              ELSE <<a.float_geo.y, a.float_geo.x, a.id>>
        kb == IF dir \in {"Left", "Right"} THEN <<b.float_geo.x, b.float_geo.y, b.id>>
              ELSE <<b.float_geo.y, b.float_geo.x, b.id>>
    IN  \E p \in 1..3 : ka[p] < kb[p] /\ \A q \in 1..(p - 1) : ka[q] = kb[q]

\* The float that follows w in direction dir, wrapping at the ends.
NextFloatOf(w, dir) ==
    LET floats == FloatsWith(w)
        pos(a) == Cardinality({b \in floats : SortsBefore(b, a, dir)})
        k == Cardinality(floats)
        target == IF dir \in {"Left", "Up"} THEN (pos(w) + k - 1) % k ELSE (pos(w) + 1) % k
    IN  (CHOOSE a \in floats : pos(a) = target).id

\* Focus(dir) applied n times.
RECURSIVE FocusTimes(_, _, _)
FocusTimes(s, dir, n) == IF n = 0 THEN s ELSE FocusTimes(Focus(s, dir), dir, n - 1)

\* The focused window floats, is not fullscreen and shares its monitor and
\* tags with at least one more floating window.
FloatingFocusCase ==
    /\ HasWin(windows, focused_window)
    /\ Win(windows, focused_window).is_floating
    /\ ~Win(windows, focused_window).is_fullscreen
    /\ Win(windows, focused_window).output # NoOut
    /\ Cardinality(FloatsWith(Win(windows, focused_window))) >= 2

NextMonitor(sorted, dir) ==
    LET pos == CHOOSE p \in 1..Len(sorted) : sorted[p] = focused_output
        n == Len(sorted)
    IN  IF dir \in {"Right", "Down"}
        THEN (IF pos = n THEN sorted[1] ELSE sorted[pos + 1])
        ELSE (IF pos = 1 THEN sorted[n] ELSE sorted[pos - 1])

Proposes(seq, id) ==
    \E k \in 1..Len(seq) : seq[k] = Req("propose_dimensions", id)

\* C31: the tiled sizing pass proposes dimensions to a window only when
\* they differ from the last proposal sent to it or its retry count is
\* positive: when a manage_start has just proposed dimensions to a tiled
\* window, the next manage_start, with the layout unchanged and the retry
\* count at 0, proposes none to it.
C31_SizingDedupe ==
    \A ord \in OutputOrders(Entry) :
        LET s == ManageStart(State, ord)
            sent == manage_start_requests(s, window_data, active_river_outputs, ord,
                                          key_bindings)
        IN  \A id \in DOMAIN last_geometry :
                ( /\ requests.run = "manage_start"
                  /\ Proposes(requests.seq, id)
                  /\ HasWin(windows, id)
                  /\ ~Win(windows, id).is_floating
                  /\ ~Win(windows, id).is_fullscreen
                  /\ id \in DOMAIN s.last_geometry
                  /\ s.last_geometry[id] = last_geometry[id]
                  /\ DataOf(window_data, id).layout_retry_count = 0
                  /\ DataOf(window_data, id).last_proposed_w = last_geometry[id].w
                  /\ DataOf(window_data, id).last_proposed_h = last_geometry[id].h )
                => ~Proposes(sent.seq, id)


\* C32: a bar reservation that matched no monitor when it arrived is kept
\* and becomes the usable area of the monitor that holds its centre once
\* that monitor is laid out, with no further reservation for that monitor.
C32_ReservationIsQueued ==
    (probe.op = "unmatched" /\ events_in_sequence = 0) =>
        \A m \in DOMAIN outputs :
            NonExclusiveAreaMatches(State, m, probe.area) =>
                outputs[m].usable_area = probe.area


\* The rectangles share no cell.
Disjoint(a, b) ==
    \/ a.w = 0 \/ a.h = 0 \/ b.w = 0 \/ b.h = 0
    \/ a.x + a.w <= b.x \/ b.x + b.w <= a.x
    \/ a.y + a.h <= b.y \/ b.y + b.h <= a.y

\* The sum of the areas of the rectangles of results.
RECURSIVE AreaSum(_)
AreaSum(results) ==
    IF results = <<>> THEN 0
    ELSE Head(results)[2].w * Head(results)[2].h + AreaSum(Tail(results))

\* floor(v * ratio)
FloorOfShare(v, ratio) == (v * ratio.num) \div ratio.den

\* C33: calculate_layout gives every leaf of the tree one rectangle, in leaf
\* order; the rectangles lie within the rendered rectangle R, no two of them
\* overlap and their areas add up to the area of R; a Vertical container
\* gives its left child the width floor(R.w * ratio) and its right child the
\* rest of the width from x + that width on, a Horizontal one likewise along
\* the height.
C33_LayoutPartitionsArea ==
    probe.op = "find_edge" =>
        LET R == probe.area
            res == probe.results
            root == probe.tree
        IN  /\ Len(res) = Len(Leaves(root))
            /\ \A k \in 1..Len(res) :
                   /\ res[k][1] = Leaves(root)[k]
                   /\ res[k][2].w >= 0 /\ res[k][2].h >= 0
                   /\ Within(res[k][2], R)
            /\ \A i, j \in 1..Len(res) : i # j => Disjoint(res[i][2], res[j][2])
            /\ AreaSum(res) = R.w * R.h
            /\ (root.kind = "Container" /\ root.split_type = "Vertical") =>
                   LET share == FloorOfShare(R.w, root.ratio) IN
                   res = calculate_layout(root.left_child,
                                          Geometry(R.x, R.y, share, R.h))
                         \o calculate_layout(root.right_child,
                                             Geometry(R.x + share, R.y, R.w - share, R.h))
            /\ (root.kind = "Container" /\ root.split_type = "Horizontal") =>
                   LET share == FloorOfShare(R.h, root.ratio) IN
                   res = calculate_layout(root.left_child,
                                          Geometry(R.x, R.y, R.w, share))
                         \o calculate_layout(root.right_child,
                                             Geometry(R.x, R.y + share, R.w, R.h - share))

\* A tree of three leaves with both kinds of split was rendered into a
\* rectangle of odd width and height.
C33_Witness ==
    /\ probe.op = "find_edge"
    /\ probe.area = Geometry(10, 30, 5, 3)
    /\ Len(probe.results) = 3
    /\ probe.tree.split_type = "Vertical"
    /\ probe.tree.right_child.kind = "Container"
    /\ probe.tree.right_child.split_type = "Horizontal"
    /\ probe.results[1][2] = Geometry(10, 30, 2, 3)
    /\ probe.results[2][2] = Geometry(12, 30, 3, 1)
    /\ probe.results[3][2] = Geometry(12, 31, 3, 2)


\* The distance from the dir edge of cur to the facing edge of g, and the
\* score: that distance, less 1000 when their extents across dir intersect.
DistanceAlong(cur, g, dir) ==
    CASE dir = "Left" -> cur.x - (g.x + g.w)
      [] dir = "Right" -> g.x - (cur.x + cur.w)
      [] dir = "Up" -> cur.y - (g.y + g.h)
      [] dir = "Down" -> g.y - (cur.y + cur.h)

NeighborScore(cur, g, dir) ==
    LET across == IF dir \in {"Left", "Right"}
                  THEN Max(cur.y, g.y) < Min(cur.y + cur.h, g.y + g.h)
                  ELSE Max(cur.x, g.x) < Min(cur.x + cur.w, g.x + g.w)
    IN  DistanceAlong(cur, g, dir) - (IF across THEN 1000 ELSE 0)

\* Window w is a candidate for the neighbour of cur in direction dir: another
\* window of the monitor of cur, on the tag that monitor views, laid out
\* beyond the dir edge of cur.
IsCandidate(w, cur, dir) ==
    /\ w.id # cur.id
    /\ w.output = cur.output
    /\ cur.output \in DOMAIN outputs
    /\ BitAnd(w.tags, outputs[cur.output].tags) # 0
    /\ w.id \in DOMAIN last_geometry
    /\ DistanceAlong(last_geometry[cur.id], last_geometry[w.id], dir) >= 0

\* C34: the neighbour Focus(dir) and Move(dir) find for the focused window
\* is another window of the same monitor, on the tag that monitor views, on
\* the dir side in the last known geometry, and no such window has a
\* smaller score.
C34_NeighborSearch ==
    \A dir \in Direction :
        LET n == find_neighbor(Entry, focused_window, dir) IN
        (focused_window # NoWin /\ n # NoWin) =>
            LET cur == Win(windows, focused_window)
                found == Win(windows, n)
            IN  /\ IsCandidate(found, cur, dir)
                /\ \A i \in 1..Len(windows) :
                       IsCandidate(windows[i], cur, dir) =>
                           NeighborScore(last_geometry[cur.id],
                                         last_geometry[windows[i].id], dir)
                           >= NeighborScore(last_geometry[cur.id],
                                            last_geometry[n], dir)


\* The requests a seat takes for the keyboard focus.
SeatFocusRequests == {"focus_window", "clear_focus"}

\* C35: focus_window and clear_focus are sent only by a run of the
\* manage_start handler, never by the handler of another event.
C35_FocusRequestsOnlyInManage ==
    requests.run # "manage_start" =>
        \A k \in 1..Len(requests.seq) : requests.seq[k].req \notin SeatFocusRequests


\* How many leaves of node hold the window id.
LeafCount(node, id) == Cardinality({k \in 1..Len(Leaves(node)) : Leaves(node)[k] = id})

\* C36: when ToggleFloat turns the focused floating window back to a tiled
\* one, the window is no longer floating and is exactly one leaf of the tree
\* of its (monitor, tags); every window that tree held is still exactly one
\* leaf of it; the window is the root if there was no tree, else the right
\* child of a Vertical container of ratio 0.5 that takes the place of the
\* leaf of the focus history target, or, when the target is no leaf of the
\* tree, of a new root whose left child is the old root.
C36_FloatToTile ==
    LET w == focused_window IN
    ( /\ w # NoWin
      /\ HasWin(windows, w)
      /\ Win(windows, w).output # NoOut
      /\ Win(windows, w).is_floating )
    => LET key == <<Win(windows, w).output, Win(windows, w).tags>>
           after == ToggleFloat(Entry)
           target == IF key \in DOMAIN tag_focus_history
                     THEN tag_focus_history[key] ELSE NoWin
       IN  /\ ~Win(after.windows, w).is_floating
           /\ key \in DOMAIN after.layout_roots
           /\ LeafCount(after.layout_roots[key], w) = 1
           /\ key \in DOMAIN layout_roots =>
                  \A id \in LeafSet(layout_roots[key]) :
                      LeafCount(after.layout_roots[key], id) = 1
           /\ IF key \notin DOMAIN layout_roots
              THEN after.layout_roots[key] = Window(w)
              ELSE IF target # NoWin /\ tree_contains(layout_roots[key], target)
              THEN \E path \in PathsTo(layout_roots[key], target) :
                       after.layout_roots[key] =
                           ReplacedAt(layout_roots[key], path,
                                      Container("Vertical", Half, Window(target), Window(w)))
              ELSE after.layout_roots[key] =
                       Container("Vertical", Half, layout_roots[key], Window(w))


\* The leaves of every tree of the index that hold the window id, as
\* <<tree key, position among the leaves>>.
LeavesHolding(id) ==
    {<<k, p>> \in UNION {{<<key, pos>> : pos \in 1..Len(Leaves(layout_roots[key]))} :
                             key \in DOMAIN layout_roots} :
        Leaves(layout_roots[k])[p] = id}

\* C37: over all the trees of layout_roots no window id is at more than
\* one leaf, neither twice in one tree nor in two trees.
C37_OneLeafPerWindow ==
    \A key \in DOMAIN layout_roots : \A id \in LeafSet(layout_roots[key]) :
        Cardinality(LeavesHolding(id)) = 1


\* Focus(dir) in the state s takes the tiling path and finds no neighbour of
\* the focused window, so that it calls cycle_tag.
WrapsFrom(s, dir) ==
    /\ s.focused_output \in DOMAIN s.outputs
    /\ ~(/\ HasWin(s.windows, s.focused_window)
         /\ Win(s.windows, s.focused_window).is_floating
         /\ ~Win(s.windows, s.focused_window).is_fullscreen)
    /\ (s.focused_window # NoWin => find_neighbor(s, s.focused_window, dir) = NoWin)

\* C38: a wrap of Focus(Right) to the next tag followed at once by a wrap
\* of Focus(Left) to the previous tag leaves the focused monitor on the tag
\* it viewed before the two.
C38_TagCycleReversible ==
    WrapsFrom(Entry, "Right") =>
        LET there == [Focus(Entry, "Right") EXCEPT !.wrap_landing = NoWrap] IN
        WrapsFrom(there, "Left") =>
            Focus(there, "Left").outputs[focused_output].tags
                = outputs[focused_output].tags


\* The sizing of the window id was given up: its retry counter is beyond
\* the limit.
Surrendered(id) == DataOf(window_data, id).layout_retry_count > RetryLimit

\* C39: a manage_start that runs while the focused window, surrendered after
\* 50 sizing retries, is shown on the focused tag sends focus_window for it
\* and no clear_focus.
C39_NoJiggleAfterSurrender ==
    ( /\ requests.run = "manage_start"
      /\ focused_window # NoWin
      /\ HasWin(windows, focused_window)
      /\ BitAnd(Win(windows, focused_window).tags, focused_tags) # 0
      /\ Shown(focused_window)
      /\ Surrendered(focused_window) )
    => /\ \E k \in 1..Len(requests.seq) :
              requests.seq[k] = Req("focus_window", focused_window)
       /\ \A k \in 1..Len(requests.seq) : requests.seq[k].req # "clear_focus"


\* C40: every status a manage_start writes to a status client is the
\* status of the state that manage_start ends in: its tags are those shown for
\* focused_tags and its tooltip names the focused window as they stand after
\* the synchronisation of focused_tags and the focus recovery.
C40_BroadcastIsConsistent ==
    requests.run = "manage_start" =>
        \A k \in 1..Len(broadcast_log.written) :
            /\ broadcast_log.written[k].json.tooltip = get_active_window_title(State)
            /\ broadcast_log.written[k].json.text = get_waybar_response_json(State).text

====
